---- MODULE Spec2Model ----
(***************************************************************************)
(* Change-aware context pipeline of ai-cr:                                 *)
(*   - SmartContextExpander (src/src/utils/parallelProcessor.ts):          *)
(*     diff parser, change analyzer, strategy selector, context extractor  *)
(*   - SmartCacheManager (src/unnamed/part_012): content-addressed cache   *)
(*                                                                         *)
(* Specifications:                                                         *)
(*   SpecSelect   selectOptimalStrategy applied to arbitrary analyses      *)
(*   SpecAnalyze  the arithmetic of analyzeFileChanges on arbitrary stats  *)
(*   Spec         SmartCacheManager, one public call per step              *)
(*   SpecConc     SmartCacheManager.set split at its await                 *)
(*   SpecPipeline getChangedFilesWithSmartContext over a file list         *)
(***************************************************************************)
EXTENDS Integers, Sequences, FiniteSets, TLC

VARIABLES
    selIn,      \* SpecSelect: the ChangeAnalysis handed to selectOptimalStrategy
    selOut,     \* SpecSelect: the strategy it returned, or "none" before the call
    anIn,       \* SpecAnalyze: [fileSize, fileType, diffStats, hasApiChanges]
    anOut,      \* SpecAnalyze: the ChangeAnalysis built from anIn, or NoAnalysis
    config,     \* SmartCacheManager.config: [enabled, strategy]
    memoryCache,\* SmartCacheManager.memoryCache: the Map's entries in insertion order
    stats,      \* SmartCacheManager.stats: [hits, misses, totalSize, entryCount]
    now,        \* Date.now(), in milliseconds
    pending,    \* set() calls suspended at `await this.makeSpace(size)`, oldest first
    lastOp,     \* the latest public cache call and what it returned
    ops,        \* number of public cache calls made so far
    files,      \* the working tree: path -> [exists, mtime, lines]
    git,        \* what `git diff HEAD~1 -- path` answers now: path -> [fails, diff]
    cache,      \* SmartContextExpander.cache: cache key -> ChangeAnalysis
    enableCaching, \* SmartContextExpander.config.enableCaching
    changedFiles,  \* getChangedFilesWithSmartContext: the list being processed
    idx,        \* index in changedFiles of the next file of the loop
    results,    \* the results pushed so far by the loop
    skipped,    \* the files the catch clause of the loop skipped
    pc,         \* "idle", "running" (inside the loop) or "done" (the call returned)
    runs,       \* calls of getChangedFilesWithSmartContext so far
    changes,    \* changes of the working tree and the baseline so far
    prev,       \* per path, mtime and context of its latest result
    exIn,       \* SpecExtract: [lines, answer], a file's lines and git's answer for it
    exOut,      \* SpecExtract: what the parser, the analysis and the extractors return
    disk,       \* the snapshot file cache.json in config.rootDir
    sched,      \* the cleanup timer: [dirOk, cleanupTimer, destroyed]
    pool,       \* ParallelProcessor: [workers, taskQueue, tasks]
    rq          \* runQueue: [items, env, pc, i, inFlight, invoked]

selVars == <<selIn, selOut>>
anVars == <<anIn, anOut>>
cacheVars == <<config, memoryCache, stats, now, pending, lastOp, ops, disk, sched>>
pipeVars == <<files, git, cache, enableCaching, changedFiles, idx, results, skipped, pc, runs,
              changes, prev>>
exVars == <<exIn, exOut>>
poolVars == <<pool, rq>>
vars == <<selIn, selOut, anIn, anOut, config, memoryCache, stats, now, pending, lastOp, ops,
          files, git, cache, enableCaching, changedFiles, idx, results, skipped, pc, runs,
          changes, prev, exIn, exOut, disk, sched, pool, rq>>

(***************************************************************************)
(* Generic helpers                                                         *)
(***************************************************************************)
Max(a, b) == IF a >= b THEN a ELSE b

Min(a, b) == IF a <= b THEN a ELSE b

\* Math.max(...xs) for a non-empty sequence of naturals
SeqMax(xs) == CHOOSE x \in {xs[i] : i \in 1..Len(xs)} : \A i \in 1..Len(xs) : xs[i] <= x

(***************************************************************************)
(* Enumerations                                                            *)
(***************************************************************************)
\* enum ContextStrategy
ContextStrategy == {"diff_only", "context_window", "affected_blocks", "smart_summary", "full_file"}

\* enum FileType
FileType == {"config", "test", "core", "docs", "build"}

(***************************************************************************)
(* changeRatio is a quotient of two naturals; it is kept as the pair       *)
(* num/den (den > 0) so that the comparisons with 0.1, 0.3 and 0.7 are     *)
(* exact.  IEEE division is correctly rounded, so for operands of this     *)
(* size n/d <= 0.1 in the code holds exactly when 10*n <= d.               *)
(***************************************************************************)
Ratio(n, d) == [num |-> n, den |-> d]

\* r <= n/d
RatioLeq(r, n, d) == r.num * d <= n * r.den

(***************************************************************************)
(* Strategy selector                                                       *)
(***************************************************************************)
\* A selector with the thresholds read as strict bounds (a plausible slip).
selectOptimalStrategyStrict(analysis) ==
    IF analysis.isDeleted THEN "diff_only"
    ELSE IF analysis.isNewFile /\ analysis.fileSize < 100 THEN "full_file"
    ELSE IF analysis.isNewFile THEN "smart_summary"
    ELSE IF analysis.fileSize < 20 THEN "full_file"
    ELSE IF analysis.fileType = "config" /\ analysis.fileSize < 50 THEN "full_file"
    ELSE IF ~RatioLeq(Ratio(1, 10), analysis.changeRatio.num, analysis.changeRatio.den)
         THEN (IF analysis.chunkCount <= 2 THEN "diff_only" ELSE "context_window")
    ELSE IF ~RatioLeq(Ratio(3, 10), analysis.changeRatio.num, analysis.changeRatio.den)
         THEN (IF analysis.hasApiChanges THEN "affected_blocks" ELSE "context_window")
    ELSE IF ~RatioLeq(Ratio(7, 10), analysis.changeRatio.num, analysis.changeRatio.den)
         THEN (IF analysis.fileSize > 100 THEN "smart_summary" ELSE "affected_blocks")
    ELSE IF analysis.fileSize < 150 THEN "full_file" ELSE "smart_summary"

\* A selector that answers a large change of a large file with the diff alone.
selectOptimalStrategyDiffForLarge(analysis) ==
    IF analysis.isDeleted THEN "diff_only"
    ELSE IF analysis.isNewFile /\ analysis.fileSize < 100 THEN "full_file"
    ELSE IF analysis.isNewFile THEN "smart_summary"
    ELSE IF analysis.fileSize < 20 THEN "full_file"
    ELSE IF analysis.fileType = "config" /\ analysis.fileSize < 50 THEN "full_file"
    ELSE IF RatioLeq(analysis.changeRatio, 1, 10)
         THEN (IF analysis.chunkCount <= 2 THEN "diff_only" ELSE "context_window")
    ELSE IF RatioLeq(analysis.changeRatio, 3, 10)
         THEN (IF analysis.hasApiChanges THEN "affected_blocks" ELSE "context_window")
    ELSE IF RatioLeq(analysis.changeRatio, 7, 10)
         THEN (IF analysis.fileSize > 100 THEN "smart_summary" ELSE "affected_blocks")
    ELSE IF analysis.fileSize < 150 THEN "full_file" ELSE "diff_only"

selectOptimalStrategy(analysis) ==
    IF analysis.isDeleted THEN "diff_only"
    ELSE IF analysis.isNewFile /\ analysis.fileSize < 100 THEN "full_file"
    ELSE IF analysis.isNewFile THEN "smart_summary"
    ELSE IF analysis.fileSize < 20 THEN "full_file"
    ELSE IF analysis.fileType = "config" /\ analysis.fileSize < 50 THEN "full_file"
    ELSE IF RatioLeq(analysis.changeRatio, 1, 10)
         THEN (IF analysis.chunkCount <= 2 THEN "diff_only" ELSE "context_window")
    ELSE IF RatioLeq(analysis.changeRatio, 3, 10)
         THEN (IF analysis.hasApiChanges THEN "affected_blocks" ELSE "context_window")
    ELSE IF RatioLeq(analysis.changeRatio, 7, 10)
         THEN (IF analysis.fileSize > 100 THEN "smart_summary" ELSE "affected_blocks")
    ELSE IF analysis.fileSize < 150 THEN "full_file" ELSE "smart_summary"

\* config.maxTokensPerFile, parseInt(process.env.MAX_TOKENS_PER_FILE || '4000')
maxTokensPerFile == 4000

estimateTokens(analysis) ==
    CASE analysis.strategy = "diff_only" -> 500
      [] analysis.strategy = "context_window" -> 1000
      [] analysis.strategy = "affected_blocks" -> 2000
      [] analysis.strategy = "smart_summary" -> 3000
      [] OTHER -> Min(analysis.fileSize * 8, maxTokensPerFile)

(***************************************************************************)
(* Change analyzer: the part of analyzeFileChanges after the file has been *)
(* read and the diff statistics fetched.                                   *)
(***************************************************************************)
\* DiffChunk
Chunk(s, e, z, t) == [startLine |-> s, endLine |-> e, size |-> z, type |-> t]

\* what getDiffStats returns when `git diff` throws
EmptyDiffStats == [additions |-> 0, deletions |-> 0, chunks |-> <<>>]

\* An analysis that takes every file with as many added lines as lines for a new file.
BuildAnalysisNewByAdditions(filePath, fileSize, fileType, diffStats, hasApiChanges) ==
    LET isNewFile == diffStats.additions = fileSize
        isDeleted == diffStats.additions = 0 /\ diffStats.deletions > 0
        actualChangedLines ==
            IF isNewFile THEN fileSize
            ELSE IF isDeleted THEN diffStats.deletions
            ELSE diffStats.additions + diffStats.deletions
        baseSize == fileSize + Max(0, diffStats.deletions - diffStats.additions)
        changeRatio ==
            IF isNewFile \/ isDeleted THEN Ratio(1, 1)
            ELSE IF baseSize > 0 THEN Ratio(actualChangedLines, baseSize)
            ELSE Ratio(0, 1)
        maxChunkSize ==
            IF Len(diffStats.chunks) > 0
            THEN SeqMax([i \in 1..Len(diffStats.chunks) |-> diffStats.chunks[i].size])
            ELSE 0
        draft == [filePath |-> filePath,
                  fileSize |-> fileSize,
                  changeRatio |-> changeRatio,
                  chunkCount |-> Len(diffStats.chunks),
                  maxChunkSize |-> maxChunkSize,
                  totalChangedLines |-> actualChangedLines,
                  additions |-> diffStats.additions,
                  deletions |-> diffStats.deletions,
                  isNewFile |-> isNewFile,
                  isDeleted |-> isDeleted,
                  fileType |-> fileType,
                  hasApiChanges |-> hasApiChanges,
                  strategy |-> "full_file",
                  estimatedTokens |-> 0]
        chosen == [draft EXCEPT !.strategy = selectOptimalStrategy(draft)]
    IN  [chosen EXCEPT !.estimatedTokens = estimateTokens(chosen)]

BuildAnalysis(filePath, fileSize, fileType, diffStats, hasApiChanges) ==
    LET isNewFile == diffStats.deletions = 0 /\ diffStats.additions = fileSize
        isDeleted == diffStats.additions = 0 /\ diffStats.deletions > 0
        actualChangedLines ==
            IF isNewFile THEN fileSize
            ELSE IF isDeleted THEN diffStats.deletions
            ELSE diffStats.additions + diffStats.deletions
        baseSize == fileSize + Max(0, diffStats.deletions - diffStats.additions)
        changeRatio ==
            IF isNewFile \/ isDeleted THEN Ratio(1, 1)
            ELSE IF baseSize > 0 THEN Ratio(actualChangedLines, baseSize)
            ELSE Ratio(0, 1)
        maxChunkSize ==
            IF Len(diffStats.chunks) > 0
            THEN SeqMax([i \in 1..Len(diffStats.chunks) |-> diffStats.chunks[i].size])
            ELSE 0
        draft == [filePath |-> filePath,
                  fileSize |-> fileSize,
                  changeRatio |-> changeRatio,
                  chunkCount |-> Len(diffStats.chunks),
                  maxChunkSize |-> maxChunkSize,
                  totalChangedLines |-> actualChangedLines,
                  additions |-> diffStats.additions,
                  deletions |-> diffStats.deletions,
                  isNewFile |-> isNewFile,
                  isDeleted |-> isDeleted,
                  fileType |-> fileType,
                  hasApiChanges |-> hasApiChanges,
                  strategy |-> "full_file",
                  estimatedTokens |-> 0]
        chosen == [draft EXCEPT !.strategy = selectOptimalStrategy(draft)]
    IN  [chosen EXCEPT !.estimatedTokens = estimateTokens(chosen)]

\* placeholder for "no analysis yet"
NoAnalysis == [strategy |-> "none"]

(***************************************************************************)
(* SmartCacheManager                                                       *)
(***************************************************************************)
\* --- bounds of the cache model ---
\* number of public cache calls in a run
MaxOps == 3

\* number of clock advances in a run
MaxTicks == 1

\* length of one clock advance, in milliseconds
TickMs == 1001

\* config.maxSize * 1024 * 1024, the byte budget, scaled down
maxSizeBytes == 10

\* config.maxEntries, the entry-count budget, scaled down
maxEntries == 2

\* DEFAULT_CACHE_CONFIG.defaultTTL, in seconds
defaultTTL == 86400

Keys == {"k1", "k2", "k3"}

\* A cached value: a JavaScript string (text is the string itself) or any other JSON
\* value (text is its JSON.stringify text); len is the byte length of text.
\* `undefined` has no JSON text.
JsonValue(text, len) == [type |-> "json", text |-> text, len |-> len]

StringValue(text, len) == [type |-> "string", text |-> text, len |-> len]

Undefined == [type |-> "undefined", text |-> "", len |-> 0]

NoValue == [type |-> "null", text |-> "", len |-> 0]

\* the number 7, the string "7" and an object of 9 bytes
Values == {JsonValue("7", 1), StringValue("7", 1), JsonValue("{b:12345}", 9)}

\* the options of set: {}, {forceUpdate: true} or {ttl: 1, tags: ['analysis']};
\* a ttl of 0 stands for an omitted ttl
SetOptions ==
    {[ttl |-> 0, tags |-> <<>>, forceUpdate |-> FALSE],
     [ttl |-> 0, tags |-> <<>>, forceUpdate |-> TRUE],
     [ttl |-> 1, tags |-> <<"analysis">>, forceUpdate |-> FALSE]}

\* generateHash: the digest of data itself for a string, of JSON.stringify(data) otherwise;
\* md5 is taken to be injective on the texts of Values.  Undefined makes it throw.
generateHash(data) == data.text

\* calculateSize: byte length of JSON.stringify(data); a string gains its two quotes
calculateSize(data) == IF data.type = "string" THEN data.len + 2 ELSE data.len

\* An expiry test that compares whole seconds.
isExpiredWholeSeconds(entry, t) == t \div 1000 > (entry.timestamp \div 1000) + entry.ttl

isExpired(entry, t) == t > entry.timestamp + entry.ttl * 1000

hasSpace(st, requiredSize) ==
    /\ st.totalSize + requiredSize <= maxSizeBytes
    /\ st.entryCount < maxEntries

compareEntriesForEviction(a, b) ==
    CASE config.strategy = "lru" -> a.lastAccessed - b.lastAccessed
      [] config.strategy = "lfu" -> a.accessCount - b.accessCount
      [] config.strategy = "ttl" -> (a.timestamp + a.ttl) - (b.timestamp + b.ttl)
      [] OTHER -> a.lastAccessed - b.lastAccessed

\* --- Map<string, CacheEntry> as the sequence of its entries in insertion order ---
MapHas(mc, key) == \E i \in 1..Len(mc) : mc[i].key = key

MapGet(mc, key) == mc[CHOOSE i \in 1..Len(mc) : mc[i].key = key]

MapSet(mc, entry) ==
    IF MapHas(mc, entry.key)
    THEN [i \in 1..Len(mc) |-> IF mc[i].key = entry.key THEN entry ELSE mc[i]]
    ELSE Append(mc, entry)

MapDelete(mc, key) == SelectSeq(mc, LAMBDA e : e.key # key)

MapKeys(mc) == {mc[i].key : i \in 1..Len(mc)}

RECURSIVE SumSizes(_)
SumSizes(mc) == IF mc = <<>> THEN 0 ELSE Head(mc).size + SumSizes(Tail(mc))

\* Array.prototype.sort is stable: x, which came after everything in `sorted`,
\* goes behind every entry that does not compare greater than it.
InsertSorted(sorted, x) ==
    LET k == Cardinality({i \in 1..Len(sorted) : compareEntriesForEviction(sorted[i], x) <= 0})
    IN  SubSeq(sorted, 1, k) \o <<x>> \o SubSeq(sorted, k + 1, Len(sorted))

RECURSIVE SortForEviction(_)
SortForEviction(entries) ==
    IF entries = <<>> THEN <<>>
    ELSE InsertSorted(SortForEviction(SubSeq(entries, 1, Len(entries) - 1)), entries[Len(entries)])

\* updateStats: entryCount and totalSize recomputed from the map (hitRate, oldestEntry,
\* newestEntry and topKeys are recomputed too; nothing reads them)
updateStats(mc, st) == [st EXCEPT !.entryCount = Len(mc), !.totalSize = SumSizes(mc)]

RECURSIVE Victims(_, _, _)
\* the loop of makeSpace over the sorted entries: keys deleted until
\* stats.totalSize - freedSize <= maxSizeBytes * 0.8
Victims(sorted, total, freedSize) ==
    IF sorted = <<>> \/ 10 * (total - freedSize) <= 8 * maxSizeBytes THEN {}
    ELSE {Head(sorted).key} \cup Victims(Tail(sorted), total, freedSize + Head(sorted).size)

makeSpace(mc, st) ==
    LET gone == Victims(SortForEviction(mc), st.totalSize, 0)
        left == SelectSeq(mc, LAMBDA e : e.key \notin gone)
    IN  [mc |-> left, st |-> updateStats(left, st)]

\* the short-circuit of set that also counts the call as an access
RefreshEntryCounting(entry, t) ==
    [entry EXCEPT !.lastAccessed = t, !.accessCount = entry.accessCount + 1]

\* set, same hash and no forceUpdate: existingEntry.lastAccessed = Date.now()
RefreshEntry(entry, t) == [entry EXCEPT !.lastAccessed = t]

\* the entry set builds for (key, value, options) at time t
NewEntry(call, t) ==
    [key |-> call.key,
     value |-> call.value,
     hash |-> generateHash(call.value),
     timestamp |-> t,
     lastAccessed |-> t,
     accessCount |-> 1,
     ttl |-> IF call.ttl # 0 THEN call.ttl ELSE defaultTTL,
     size |-> calculateSize(call.value),
     metadata |-> [fileSize |-> calculateSize(call.value), tags |-> call.tags]]

\* set takes the short-circuit: an entry under the key with the same hash, no forceUpdate
SameHash(mc, call) ==
    /\ MapHas(mc, call.key)
    /\ MapGet(mc, call.key).hash = generateHash(call.value)
    /\ ~call.forceUpdate

\* set from its first line to its first await or its return:
\*   phase "returned": the call is over and returned ret
\*   phase "awaiting": makeSpace has run, the rest of set waits for the await to resume
SetBegin(mc, st, call, t) ==
    IF ~config.enabled THEN [phase |-> "returned", ret |-> FALSE, mc |-> mc, st |-> st]
    ELSE IF call.value = Undefined
    THEN [phase |-> "returned", ret |-> FALSE, mc |-> mc, st |-> st]
    ELSE IF SameHash(mc, call)
    THEN [phase |-> "returned", ret |-> TRUE,
          mc |-> MapSet(mc, RefreshEntry(MapGet(mc, call.key), t)), st |-> st]
    ELSE IF hasSpace(st, calculateSize(call.value))
    THEN LET mc2 == MapSet(mc, NewEntry(call, t))
         IN  [phase |-> "returned", ret |-> TRUE, mc |-> mc2, st |-> updateStats(mc2, st)]
    ELSE LET made == makeSpace(mc, st)
         IN  [phase |-> "awaiting", ret |-> TRUE, mc |-> made.mc, st |-> made.st]

\* set after `await this.makeSpace(size)`: the entry built with the `now` taken before
\* the await goes into the map, then updateStats
SetResume(mc, st, call, t) ==
    LET mc2 == MapSet(mc, NewEntry(call, t))
    IN  [mc |-> mc2, st |-> updateStats(mc2, st)]

\* a whole set call with nothing running between its await and its resumption
SetCall(mc, st, call, t) ==
    LET b == SetBegin(mc, st, call, t)
    IN  IF b.phase = "returned" THEN [ret |-> b.ret, mc |-> b.mc, st |-> b.st]
        ELSE LET r == SetResume(b.mc, b.st, call, t)
             IN  [ret |-> TRUE, mc |-> r.mc, st |-> r.st]

SetCalls ==
    {[key |-> k, value |-> v, ttl |-> o.ttl, tags |-> o.tags, forceUpdate |-> o.forceUpdate] :
        k \in Keys, v \in Values, o \in SetOptions}
    \cup {[key |-> "k1", value |-> Undefined, ttl |-> 0, tags |-> <<>>, forceUpdate |-> FALSE]}

NoCall == [key |-> "", value |-> NoValue, ttl |-> 0, tags |-> <<>>, forceUpdate |-> FALSE]

OpRecord(op, call, ret, value) == [op |-> op, call |-> call, ret |-> ret, value |-> value]

KeyCall(key) == [NoCall EXCEPT !.key = key]

InitStats == [hits |-> 0, misses |-> 0, totalSize |-> 0, entryCount |-> 0]

\* there is no file cache.json
NoSnapshot == [kind |-> "missing"]

\* the cleanup timer after initialize(): started when the cache is enabled, the cache
\* directory exists or could be created, and config.cleanupInterval > 0
Timers(enabled, dirOk, interval) ==
    [dirOk |-> dirOk,
     cleanupTimer |-> IF enabled /\ dirOk /\ interval > 0 THEN "set" ELSE "null",
     destroyed |-> FALSE]

\* DEFAULT_CACHE_CONFIG.cleanupInterval, in seconds
cleanupInterval == 3600

\* the expander is not part of the run
PipelineUnused ==
    /\ files = <<>>
    /\ git = <<>>
    /\ cache = <<>>
    /\ enableCaching = FALSE
    /\ changedFiles = <<>>
    /\ idx = 1
    /\ results = <<>>
    /\ skipped = {}
    /\ pc = "idle"
    /\ runs = 0
    /\ changes = 0
    /\ prev = <<>>

\* no pool was created and runQueue was not called
PoolUnused == pool = [workers |-> <<>>] /\ rq = [pc |-> "idle"]

\* the extractors are not called on their own
ExtractUnused ==
    /\ exIn = [lines |-> <<>>]
    /\ exOut = [called |-> FALSE]

\* the cache is not part of the run
CacheUnused ==
    /\ config = [enabled |-> FALSE, strategy |-> "lru"]
    /\ memoryCache = <<>>
    /\ stats = InitStats
    /\ now = 0
    /\ pending = <<>>
    /\ lastOp = OpRecord("none", NoCall, FALSE, NoValue)
    /\ ops = 0
    /\ disk = NoSnapshot
    /\ sched = Timers(config.enabled, TRUE, cleanupInterval)

\* new SmartCacheManager(config), no snapshot on disk
InitCache ==
    /\ config \in [enabled : BOOLEAN, strategy : {"lru", "lfu", "ttl"}]
    /\ memoryCache = <<>>
    /\ stats = InitStats
    /\ now = 0
    /\ pending = <<>>
    /\ lastOp = OpRecord("none", NoCall, FALSE, NoValue)
    /\ ops = 0
    /\ disk = NoSnapshot
    /\ sched = Timers(config.enabled, TRUE, cleanupInterval)
    /\ selIn = NoAnalysis
    /\ selOut = "none"
    /\ anIn = NoAnalysis
    /\ anOut = NoAnalysis
    /\ PipelineUnused
    /\ ExtractUnused
    /\ PoolUnused

\* time passes
Tick ==
    /\ now < MaxTicks * TickMs
    /\ now' = now + TickMs
    /\ UNCHANGED <<config, memoryCache, stats, pending, lastOp, ops, selVars, anVars, pipeVars,
                   exVars, poolVars, disk, sched>>

\* await cache.set(key, value, options), run to completion
Set(call) ==
    /\ ops < MaxOps
    /\ LET r == SetCall(memoryCache, stats, call, now)
       IN  /\ memoryCache' = r.mc
           /\ stats' = r.st
           /\ lastOp' = OpRecord("set", call, r.ret, NoValue)
    /\ ops' = ops + 1
    /\ UNCHANGED <<config, now, pending, selVars, anVars, pipeVars, exVars, poolVars, disk, sched>>

\* await cache.get(key)
Get(key) ==
    /\ ops < MaxOps
    /\ IF ~config.enabled
       THEN /\ lastOp' = OpRecord("get", KeyCall(key), FALSE, NoValue)
            /\ UNCHANGED <<memoryCache, stats>>
       ELSE IF ~MapHas(memoryCache, key)
       THEN /\ stats' = [stats EXCEPT !.misses = stats.misses + 1]
            /\ lastOp' = OpRecord("get", KeyCall(key), FALSE, NoValue)
            /\ UNCHANGED memoryCache
       ELSE IF isExpired(MapGet(memoryCache, key), now)
       THEN LET mc2 == MapDelete(memoryCache, key)
                st2 == updateStats(mc2, stats)
            IN  /\ memoryCache' = mc2
                /\ stats' = [st2 EXCEPT !.misses = st2.misses + 1]
                /\ lastOp' = OpRecord("get", KeyCall(key), FALSE, NoValue)
       ELSE LET e == MapGet(memoryCache, key)
            IN  /\ memoryCache' = MapSet(memoryCache,
                       [e EXCEPT !.lastAccessed = now, !.accessCount = e.accessCount + 1])
                /\ stats' = [stats EXCEPT !.hits = stats.hits + 1]
                /\ lastOp' = OpRecord("get", KeyCall(key), TRUE, e.value)
    /\ ops' = ops + 1
    /\ UNCHANGED <<config, now, pending, selVars, anVars, pipeVars, exVars, poolVars, disk, sched>>

\* cache.delete(key)
Delete(key) ==
    /\ ops < MaxOps
    /\ IF MapHas(memoryCache, key)
       THEN LET mc2 == MapDelete(memoryCache, key)
            IN  /\ memoryCache' = mc2
                /\ stats' = updateStats(mc2, stats)
       ELSE UNCHANGED <<memoryCache, stats>>
    /\ lastOp' = OpRecord("delete", KeyCall(key), MapHas(memoryCache, key), NoValue)
    /\ ops' = ops + 1
    /\ UNCHANGED <<config, now, pending, selVars, anVars, pipeVars, exVars, poolVars, disk, sched>>

\* cache.clear()
Clear ==
    /\ ops < MaxOps
    /\ memoryCache' = <<>>
    /\ stats' = updateStats(<<>>, stats)
    /\ lastOp' = OpRecord("clear", NoCall, TRUE, NoValue)
    /\ ops' = ops + 1
    /\ UNCHANGED <<config, now, pending, selVars, anVars, pipeVars, exVars, poolVars, disk, sched>>

\* cache.cleanup(), also what the cleanup timer runs
Cleanup ==
    /\ ops < MaxOps
    /\ LET mc2 == SelectSeq(memoryCache, LAMBDA e : ~isExpired(e, now))
       IN  /\ memoryCache' = mc2
           /\ stats' = IF Len(mc2) < Len(memoryCache) THEN updateStats(mc2, stats) ELSE stats
    /\ lastOp' = OpRecord("cleanup", NoCall, TRUE, NoValue)
    /\ ops' = ops + 1
    /\ UNCHANGED <<config, now, pending, selVars, anVars, pipeVars, exVars, poolVars, disk, sched>>

Next ==
    \/ Tick
    \/ \E call \in SetCalls : Set(call)
    \/ \E key \in Keys : Get(key)
    \/ \E key \in Keys : Delete(key)
    \/ Clear
    \/ Cleanup

Spec == InitCache /\ [][Next]_vars

(***************************************************************************)
(* SpecConc: set() calls issued by several workers on the one event loop.  *)
(* `await this.makeSpace(size)` suspends the caller even though makeSpace  *)
(* itself never waits, so other calls run between a set's eviction and its *)
(* insertion; suspended calls resume in the order they were suspended.     *)
(***************************************************************************)
\* a worker calls cache.set: the call runs up to its await or its return
SetStart(call) ==
    /\ ops < MaxOps
    /\ LET b == SetBegin(memoryCache, stats, call, now)
       IN  /\ memoryCache' = b.mc
           /\ stats' = b.st
           /\ IF b.phase = "returned"
              THEN /\ lastOp' = OpRecord("set", call, b.ret, NoValue)
                   /\ UNCHANGED pending
              ELSE /\ pending' = Append(pending, [call |-> call, now |-> now])
                   /\ UNCHANGED lastOp
    /\ ops' = ops + 1
    /\ UNCHANGED <<config, now, selVars, anVars, pipeVars, exVars, poolVars, disk, sched>>

\* the oldest suspended set call resumes after its await and returns
SetFinish ==
    /\ pending # <<>>
    /\ LET r == SetResume(memoryCache, stats, Head(pending).call, Head(pending).now)
       IN  /\ memoryCache' = r.mc
           /\ stats' = r.st
    /\ lastOp' = OpRecord("set", Head(pending).call, TRUE, NoValue)
    /\ pending' = Tail(pending)
    /\ UNCHANGED <<config, now, ops, selVars, anVars, pipeVars, exVars, poolVars, disk, sched>>

NextConc ==
    \/ Tick
    \/ \E call \in SetCalls : SetStart(call)
    \/ SetFinish
    \/ \E key \in Keys : Get(key)

SpecConc == InitCache /\ [][NextConc]_vars

(***************************************************************************)
(* SpecPersist: the cache with its snapshot file.  saveToDisk writes        *)
(* {timestamp, stats, entries: [[key, entry], ...]} to cache.json;         *)
(* the constructor of the next process reads it back (config.persistToDisk *)
(* keeps its default, true).  The file is one of                           *)
(*   kind = "missing"   no file                                            *)
(*   kind = "corrupt"   a text JSON.parse rejects                          *)
(*   kind = "badlist"   JSON whose `entries` is not iterable (a number)    *)
(*   kind = "json"      JSON whose `entries` is the list `entries`; an     *)
(*                      element is [pair |-> TRUE, key, entry] for a       *)
(*                      [key, entry] pair and [pair |-> FALSE] for a value *)
(*                      that cannot be destructured (null, a number)       *)
(* JSON.stringify and JSON.parse give back the keys, numbers, strings and  *)
(* values of the entries as they were.                                     *)
(***************************************************************************)
Snapshot(entries) == [kind |-> "json", entries |-> entries]

\* an element [key, entry] of the entries list
Pair(entry) == [pair |-> TRUE, key |-> entry.key, entry |-> entry]

\* an element of the entries list that is not a pair
NotAPair == [pair |-> FALSE]

\* Array.from(this.memoryCache.entries())
SnapshotOf(mc) == Snapshot([i \in 1..Len(mc) |-> Pair(mc[i])])

RECURSIVE LoadLoop(_, _, _)
\* the for loop of loadFromDisk from the first of `items` on: the map it leaves and
\* whether it threw
LoadLoop(items, mc, t) ==
    IF items = <<>> THEN [mc |-> mc, thrown |-> FALSE]
    ELSE IF ~Head(items).pair THEN [mc |-> mc, thrown |-> TRUE]
    ELSE IF isExpired(Head(items).entry, t) THEN LoadLoop(Tail(items), mc, t)
    ELSE LoadLoop(Tail(items), MapSet(mc, Head(items).entry), t)

\* what the loop of loadFromDisk leaves: updateStats runs unless the loop threw
Loaded(l, st) == [mc |-> l.mc, st |-> IF l.thrown THEN st ELSE updateStats(l.mc, st)]

\* loadFromDisk at time t on the map mc and the statistics st
loadFromDisk(file, mc, st, t) ==
    IF file.kind # "json" THEN [mc |-> mc, st |-> st]
    ELSE Loaded(LoadLoop(file.entries, mc, t), st)

\* initialize, called by the constructor: nothing is loaded when the cache is disabled
initialize(enabled, file, t) ==
    IF enabled THEN loadFromDisk(file, <<>>, InitStats, t)
    ELSE [mc |-> <<>>, st |-> InitStats]

\* set calls of the runs with a snapshot file
PersistCalls ==
    {[key |-> k, value |-> v, ttl |-> ttl, tags |-> <<>>, forceUpdate |-> FALSE] :
        k \in {"k1", "k2"}, v \in {JsonValue("7", 1), JsonValue("{b:12345}", 9)}, ttl \in {0, 1}}

\* an entry as an earlier process stored it at time 0
StoredEntry(key, ttl) ==
    NewEntry([key |-> key, value |-> JsonValue("7", 1), ttl |-> ttl, tags |-> <<>>,
              forceUpdate |-> FALSE], 0)

\* the snapshot files a process may find when it starts
InitialSnapshots ==
    {NoSnapshot, [kind |-> "corrupt"], [kind |-> "badlist"],
     Snapshot(<<>>),
     Snapshot(<<Pair(StoredEntry("k1", 1)), Pair(StoredEntry("k2", 0))>>),
     Snapshot(<<Pair(StoredEntry("k1", 0)), NotAPair>>),
     Snapshot(<<NotAPair, Pair(StoredEntry("k1", 0))>>)}

\* new SmartCacheManager(config) with a snapshot file in place
InitPersist ==
    /\ config \in [enabled : BOOLEAN, strategy : {"lru", "lfu", "ttl"}]
    /\ disk \in InitialSnapshots
    /\ sched = Timers(config.enabled, TRUE, cleanupInterval)
    /\ now = 0
    /\ memoryCache = initialize(config.enabled, disk, 0).mc
    /\ stats = initialize(config.enabled, disk, 0).st
    /\ pending = <<>>
    /\ lastOp = OpRecord("load", NoCall, TRUE, NoValue)
    /\ ops = 0
    /\ selIn = NoAnalysis
    /\ selOut = "none"
    /\ anIn = NoAnalysis
    /\ anOut = NoAnalysis
    /\ PipelineUnused
    /\ ExtractUnused
    /\ PoolUnused

\* saveToDisk, run by the backup timer, optimize() and destroy()
Save ==
    /\ ops < MaxOps
    /\ disk' = SnapshotOf(memoryCache)
    /\ lastOp' = OpRecord("save", NoCall, TRUE, NoValue)
    /\ ops' = ops + 1
    /\ UNCHANGED <<config, memoryCache, stats, now, pending, selVars, anVars, pipeVars, exVars, poolVars,
                   sched>>

\* the process ends and the next one constructs its SmartCacheManager
Restart ==
    /\ ops < MaxOps
    /\ memoryCache' = initialize(config.enabled, disk, now).mc
    /\ stats' = initialize(config.enabled, disk, now).st
    /\ pending' = <<>>
    /\ lastOp' = OpRecord("load", NoCall, TRUE, NoValue)
    /\ ops' = ops + 1
    /\ UNCHANGED <<config, now, disk, sched, selVars, anVars, pipeVars, exVars, poolVars>>

NextPersist ==
    \/ Tick
    \/ \E call \in PersistCalls : Set(call)
    \/ \E key \in Keys : Get(key)
    \/ Cleanup
    \/ Save
    \/ Restart

SpecPersist == InitPersist /\ [][NextPersist]_vars

(***************************************************************************)
(* SpecEvict: set calls with TTLs of 1 and 3 seconds, 1.001 s apart, that  *)
(* fill the budget and make makeSpace choose its victims.                  *)
(***************************************************************************)
EvictCalls ==
    {[key |-> k, value |-> v, ttl |-> ttl, tags |-> <<>>, forceUpdate |-> FALSE] :
        k \in Keys, v \in {JsonValue("7", 1), JsonValue("{b:12345}", 9)}, ttl \in {1, 3}}

NextEvict ==
    \/ Tick
    \/ \E call \in EvictCalls : Set(call)
    \/ \E key \in Keys : Get(key)

SpecEvict == InitCache /\ [][NextEvict]_vars

(***************************************************************************)
(* SpecSweep: the cleanup timer.  initialize() starts it with setInterval  *)
(* when config.cleanupInterval > 0, after the cache directory was found or *)
(* created; its callback runs cleanup() until destroy() clears it.  The    *)
(* callback of a running interval timer is run again and again, which is   *)
(* the weak fairness of SweepTimer.                                        *)
(***************************************************************************)
\* a sweep that looks for expired entries only when the entry budget is used up
cleanupWhenFull(mc, t) ==
    IF Len(mc) < maxEntries THEN mc ELSE SelectSeq(mc, LAMBDA e : ~isExpired(e, t))

\* the Map after the loop of cleanup() at time t
cleanup(mc, t) == SelectSeq(mc, LAMBDA e : ~isExpired(e, t))

\* set calls with a TTL of one second
SweepCalls ==
    {[key |-> k, value |-> v, ttl |-> 1, tags |-> <<>>, forceUpdate |-> FALSE] :
        k \in {"k1", "k2"}, v \in {JsonValue("7", 1), JsonValue("{b:12345}", 9)}}

\* new SmartCacheManager(config): the directory can or cannot be created, the cleanup
\* interval is the default or 0
InitSweep ==
    /\ config \in [enabled : BOOLEAN, strategy : {"lru"}, cleanupInterval : {0, cleanupInterval}]
    /\ memoryCache = <<>>
    /\ stats = InitStats
    /\ now = 0
    /\ pending = <<>>
    /\ lastOp = OpRecord("none", NoCall, FALSE, NoValue)
    /\ ops = 0
    /\ disk = NoSnapshot
    /\ sched \in {Timers(config.enabled, dirOk, config.cleanupInterval) : dirOk \in BOOLEAN}
    /\ selIn = NoAnalysis
    /\ selOut = "none"
    /\ anIn = NoAnalysis
    /\ anOut = NoAnalysis
    /\ PipelineUnused
    /\ ExtractUnused
    /\ PoolUnused

\* the callback of the cleanup timer: this.cleanup(); lastOp.ret tells cleanedCount > 0
SweepTimer ==
    /\ sched.cleanupTimer = "set"
    /\ memoryCache' = cleanup(memoryCache, now)
    /\ stats' = IF Len(cleanup(memoryCache, now)) < Len(memoryCache)
                THEN updateStats(cleanup(memoryCache, now), stats)
                ELSE stats
    /\ lastOp' = OpRecord("sweep", NoCall, Len(cleanup(memoryCache, now)) < Len(memoryCache),
                          NoValue)
    /\ UNCHANGED <<config, now, pending, ops, selVars, anVars, pipeVars, exVars, poolVars, disk, sched>>

\* await cache.destroy(): clearInterval, saveToDisk, clear
Destroy ==
    /\ ops < MaxOps
    /\ sched' = [sched EXCEPT !.cleanupTimer = IF @ = "set" THEN "cleared" ELSE @,
                              !.destroyed = TRUE]
    /\ disk' = IF sched.dirOk THEN SnapshotOf(memoryCache) ELSE disk
    /\ memoryCache' = <<>>
    /\ stats' = updateStats(<<>>, stats)
    /\ lastOp' = OpRecord("destroy", NoCall, TRUE, NoValue)
    /\ ops' = ops + 1
    /\ UNCHANGED <<config, now, pending, selVars, anVars, pipeVars, exVars, poolVars>>

NextSweep ==
    \/ Tick
    \/ \E call \in SweepCalls : Set(call)
    \/ \E key \in Keys : Get(key)
    \/ SweepTimer
    \/ Destroy

SpecSweep == InitSweep /\ [][NextSweep]_vars /\ WF_vars(SweepTimer)

(***************************************************************************)
(* SpecOptimize: optimize() on a cache started from the snapshot an        *)
(* earlier process saved.  That process made four set calls with 1-byte    *)
(* values and one with a 9-byte value: makeSpace evicts nothing while the  *)
(* total is within 80% of the byte budget, so all five entries were kept.  *)
(***************************************************************************)
\* evictOldEntries(ratio) with ratio = 0.2: the first floor(size * 0.2) entries in
\* eviction order are deleted; updateStats is not called
evictOldEntries(mc) ==
    SelectSeq(mc, LAMBDA e :
        \A i \in 1..(Len(mc) \div 5) : SortForEviction(mc)[i].key # e.key)

\* optimize up to its saveToDisk: cleanup(), then evictOldEntries when the recorded
\* total size is above the byte budget
Optimized(mc, st, t) ==
    IF (IF Len(cleanup(mc, t)) < Len(mc) THEN updateStats(cleanup(mc, t), st) ELSE st).totalSize
           > maxSizeBytes
    THEN [mc |-> evictOldEntries(cleanup(mc, t)),
          st |-> IF Len(cleanup(mc, t)) < Len(mc) THEN updateStats(cleanup(mc, t), st) ELSE st]
    ELSE [mc |-> cleanup(mc, t),
          st |-> IF Len(cleanup(mc, t)) < Len(mc) THEN updateStats(cleanup(mc, t), st) ELSE st]

\* the 9-byte entry of the earlier process
StoredBigEntry(key) ==
    NewEntry([key |-> key, value |-> JsonValue("{b:12345}", 9), ttl |-> 0, tags |-> <<>>,
              forceUpdate |-> FALSE], 0)

FiveEntries ==
    Snapshot(<<Pair(StoredEntry("k1", 0)), Pair(StoredEntry("k2", 0)), Pair(StoredEntry("k3", 0)),
               Pair(StoredEntry("k4", 1)), Pair(StoredBigEntry("k5"))>>)

InitOptimize ==
    /\ config \in [enabled : {TRUE}, strategy : {"lru", "lfu", "ttl"}]
    /\ disk \in {NoSnapshot, FiveEntries}
    /\ sched = Timers(config.enabled, TRUE, cleanupInterval)
    /\ now = 0
    /\ memoryCache = initialize(config.enabled, disk, 0).mc
    /\ stats = initialize(config.enabled, disk, 0).st
    /\ pending = <<>>
    /\ lastOp = OpRecord("load", NoCall, TRUE, NoValue)
    /\ ops = 0
    /\ selIn = NoAnalysis
    /\ selOut = "none"
    /\ anIn = NoAnalysis
    /\ anOut = NoAnalysis
    /\ PipelineUnused
    /\ ExtractUnused
    /\ PoolUnused

\* await cache.optimize()
Optimize ==
    /\ ops < MaxOps
    /\ memoryCache' = Optimized(memoryCache, stats, now).mc
    /\ stats' = Optimized(memoryCache, stats, now).st
    /\ disk' = SnapshotOf(Optimized(memoryCache, stats, now).mc)
    /\ lastOp' = OpRecord("optimize", NoCall, TRUE, NoValue)
    /\ ops' = ops + 1
    /\ UNCHANGED <<config, now, pending, sched, selVars, anVars, pipeVars, exVars, poolVars>>

NextOptimize ==
    \/ Tick
    \/ \E call \in PersistCalls : Set(call)
    \/ \E key \in Keys : Get(key)
    \/ \E key \in Keys : Delete(key)
    \/ Optimize

SpecOptimize == InitOptimize /\ [][NextOptimize]_vars

(***************************************************************************)
(* SmartContextExpander: diff parser                                       *)
(*                                                                         *)
(* The output of `git diff HEAD~1 -- file` is the sequence of its lines as *)
(* split('\n') yields them, each reduced to what the parser reads of it:   *)
(*   k = "hdr"   a hunk header `@@ -a,b +c,d @@`, c its new-file start     *)
(*   k = "file"  a line starting with `diff `, `index `, `---` or `+++`    *)
(*   k = "+", "-", " "   an added, deleted or context line                 *)
(*   k = ""      the empty string (git ends its output with a newline, so  *)
(*               split leaves one after the last line)                     *)
(*   k = "other" anything else (`\ No newline at end of file`, ...)        *)
(* A git answer is [fails, diff]: fails when execSync throws.              *)
(***************************************************************************)
DiffLine(k, c) == [k |-> k, c |-> c]

Rep(x, n) == [i \in 1..n |-> x]

\* The for loop of parseDiffChunks, hunk by hunk. A chunk is opened by each line that
\* matches the header pattern and is pushed when the next header, or the end of the
\* lines, is reached; the lines before the first header change nothing.
\* a header pattern loose enough to match the '---' and '+++' lines as well
ChunkHeadersLoose(diff) == {i \in 1..Len(diff) : diff[i].k \in {"hdr", "file"}}

\* the positions of the header lines
ChunkHeaders(diff) == {i \in 1..Len(diff) : diff[i].k = "hdr"}

\* the positions of the lines the loop handles while the chunk opened at h is current
HunkLines(diff, h) ==
    {j \in (h + 1)..Len(diff) : \A g \in ChunkHeaders(diff) : g <= h \/ g > j}

\* currentLineNum when the chunk opened at h is pushed: the header's new-file start
\* plus one for every '+' line and every context (' ' or empty) line
HunkLineNum(diff, h) ==
    diff[h].c + Cardinality({j \in HunkLines(diff, h) : diff[j].k \in {"+", " ", ""}})

\* currentChunk.type after the '+' and '-' lines at the positions marks: 'modification'
\* from the header; every '+' line sets 'addition'; every '-' line sets 'modification'
\* when the type is 'addition' (the line handled before it was a '+') and 'deletion'
\* otherwise
MarksType(diff, marks) ==
    IF marks = {} THEN "modification"
    ELSE IF \E l \in marks : diff[l].k = "+" /\ \A i \in marks : i <= l THEN "addition"
    ELSE IF \E j \in marks : diff[j].k = "+" /\ Cardinality({i \in marks : i > j}) = 1
    THEN "modification"
    ELSE "deletion"

\* currentChunk.type when the chunk opened at h is pushed
HunkType(diff, h) == MarksType(diff, {j \in HunkLines(diff, h) : diff[j].k \in {"+", "-"}})

\* chunks.push: inside the loop with endLine = currentLineNum - 1, after the loop (the
\* last chunk) with endLine = currentLineNum and a size one larger
PushedChunk(startLine, currentLineNum, type, isLast) ==
    IF isLast
    THEN Chunk(startLine, currentLineNum, currentLineNum - startLine + 1, type)
    ELSE Chunk(startLine, currentLineNum - 1, currentLineNum - startLine, type)

HunkChunk(diff, h, isLast) ==
    PushedChunk(diff[h].c, HunkLineNum(diff, h), HunkType(diff, h), isLast)

\* the position of the k-th header line
NthHeader(diff, k) ==
    CHOOSE g \in ChunkHeaders(diff) : Cardinality({f \in ChunkHeaders(diff) : f < g}) = k - 1

\* the chunks pushed, in the order of their headers
ParseLoop(diff) ==
    [k \in 1..Cardinality(ChunkHeaders(diff)) |->
        HunkChunk(diff, NthHeader(diff, k), k = Cardinality(ChunkHeaders(diff)))]

\* diffOutput.trim() is empty: nothing but blank lines
IsBlankDiff(diff) == \A i \in 1..Len(diff) : diff[i].k = ""

parseDiffChunks(answer) ==
    IF answer.fails THEN <<>>
    ELSE IF IsBlankDiff(answer.diff) THEN <<>>
    ELSE ParseLoop(answer.diff)

CountKind(diff, k) == Cardinality({i \in 1..Len(diff) : diff[i].k = k})

\* getDiffStats: `git diff --numstat` counts the + and - lines of the same diff
getDiffStats(answer) ==
    IF answer.fails THEN EmptyDiffStats
    ELSE [additions |-> CountKind(answer.diff, "+"),
          deletions |-> CountKind(answer.diff, "-"),
          chunks |-> parseDiffChunks(answer)]

(***************************************************************************)
(* File contents: the lines content.split('\n') yields, each one of a few  *)
(* kinds of source line:                                                   *)
(*   "imp"  import a from 'b';        "efn{"  export function f() {        *)
(*   "fn{"  function g() {            "x"     x = 1;                       *)
(*   "{"    {          "}"  }         ""      the empty line               *)
(***************************************************************************)
\* blockPatterns of findContainingBlock match the line
IsBlockStart(line) == line \in {"efn{", "fn{"}

\* the braces of the line, in order
Braces(line) ==
    CASE line \in {"efn{", "fn{", "{"} -> <<"{">>
      [] line = "}" -> <<"}">>
      [] OTHER -> <<>>

\* apiPatterns of detectApiChanges match the line
IsApiLine(line) == line = "efn{"

detectApiChanges(lines) == \E i \in 1..Len(lines) : IsApiLine(lines[i])

\* findHeaderEnd: blank or comment line; importantPatterns match; the line holds
\* 'function', 'class' or 'const'
IsBlankOrComment(line) == line = ""

IsHeaderContent(line) == line = "imp"

IsMainCode(line) == line \in {"efn{", "fn{"}

\* the features of a path that detectFileType reads
PathFeatures(filePath) ==
    CASE filePath = "src/app.ts" -> {}
      [] filePath = "app.config.json" -> {"config", ".json"}
      [] OTHER -> {}

detectFileType(filePath) ==
    LET f == PathFeatures(filePath)
    IN  IF f \cap {"test", "spec", "__tests__"} # {} THEN "test"
        ELSE IF f \cap {".md", ".txt", ".doc"} # {} THEN "docs"
        ELSE IF f \cap {"config", ".json", ".yml", ".yaml", ".env"} # {} THEN "config"
        ELSE IF f \cap {"build", "webpack", "rollup", ".sh", ".bat"} # {} THEN "build"
        ELSE "core"

(***************************************************************************)
(* SmartContextExpander: the five extractors.  An extracted text is the    *)
(* sequence of its lines; OutLine(t, n, m, s) is one of                    *)
(*   t = "text"    the literal line s                                      *)
(*   t = "title"   the heading line naming the file s; "changes",          *)
(*                 "nochanges" and "difffailed" are extractDiffOnly's      *)
(*                 three lines naming the file s                           *)
(*   t = "num"     `   n: s`, line n of the file with its text s           *)
(*   t = "marked" / "plain"  the same behind the change marker or a blank  *)
(*   t = "chunk"   the summary line of a chunk spanning lines n-m, type s  *)
(*   t = "diff"    a line of the diff, s its kind and n its hunk start     *)
(***************************************************************************)
OutLine(t, n, m, s) == [t |-> t, n |-> n, m |-> m, s |-> s]

Text(s) == OutLine("text", 0, 0, s)

Numbered(n, s) == OutLine("num", n, 0, s)

\* the file's lines as they are
RawContent(lines) == [i \in 1..Len(lines) |-> Text(lines[i])]

\* config.contextWindowSize, parseInt(process.env.CONTEXT_WINDOW_SIZE || '20')
contextWindowSize == 20

\* a relative index of Array.prototype.slice: a negative one counts from the end
SliceIndex(len, k) == IF k < 0 THEN Max(len + k, 0) ELSE Min(k, len)

\* Array.prototype.slice(from, to) on 0-based indices, as a sequence
Slice(lines, from, to) ==
    SubSeq(lines, SliceIndex(Len(lines), from) + 1, SliceIndex(Len(lines), to))

\* extractDiffOnly that lets the failure of `git diff` escape
extractDiffOnlyUncaught(filePath, answer) ==
    IF answer.fails THEN <<OutLine("thrown", 0, 0, filePath)>>
    ELSE IF IsBlankDiff(answer.diff) THEN <<OutLine("nochanges", 0, 0, filePath)>>
    ELSE <<OutLine("changes", 0, 0, filePath), Text("")>>
         \o [i \in 1..Len(answer.diff) |->
                OutLine("diff", answer.diff[i].c, 0, answer.diff[i].k)]

extractDiffOnly(filePath, answer) ==
    IF answer.fails THEN <<OutLine("difffailed", 0, 0, filePath)>>
    ELSE IF IsBlankDiff(answer.diff) THEN <<OutLine("nochanges", 0, 0, filePath)>>
    ELSE <<OutLine("changes", 0, 0, filePath), Text("")>>
         \o [i \in 1..Len(answer.diff) |->
                OutLine("diff", answer.diff[i].c, 0, answer.diff[i].k)]

\* the largest number of a non-empty set
SetMax(S) == CHOOSE x \in S : \A y \in S : y <= x

\* lines[lineNum] || '' for a 0-based index
LineOrEmpty(lines, lineNum) ==
    IF lineNum >= 0 /\ lineNum + 1 <= Len(lines) THEN lines[lineNum + 1] ELSE ""

\* the window without the clamp of its end to the last line
WindowIndicesUnclamped(lines, chunks, windowSize) ==
    UNION {Max(0, chunks[c].startLine - windowSize - 1) .. (chunks[c].endLine + windowSize - 1) :
           c \in 1..Len(chunks)}

\* the window taken with the 1-based line numbers as indices
WindowIndicesOneBased(lines, chunks, windowSize) ==
    UNION {Max(0, chunks[c].startLine - windowSize)
               .. Min(Len(lines) - 1, chunks[c].endLine + windowSize) :
           c \in 1..Len(chunks)}

\* the 0-based indices extractContextWindow collects for the chunks
WindowIndices(lines, chunks, windowSize) ==
    UNION {Max(0, chunks[c].startLine - windowSize - 1)
               .. Min(Len(lines) - 1, chunks[c].endLine + windowSize - 1) :
           c \in 1..Len(chunks)}

\* the loop over sortedLines: line lineNum is pushed for every index collected, in
\* ascending order, behind '...' when lineNum > lastLine + 1, that is when it is the
\* first one or lineNum - 1 was not collected
RenderWindow(lines, indices, lastLine) ==
    LET slots == [j \in 1..(2 * (SetMax(indices \cup {0}) + 1)) |->
                     LET lineNum == (j - 1) \div 2
                     IN  IF j % 2 = 1
                         THEN [keep |-> lineNum \in indices
                                        /\ (lineNum - 1 \notin indices \/ lineNum - 1 <= lastLine),
                               out |-> Text("...")]
                         ELSE [keep |-> lineNum \in indices,
                               out |-> Numbered(lineNum + 1, LineOrEmpty(lines, lineNum))]]
        pushed == SelectSeq(slots, LAMBDA e : e.keep)
    IN  [i \in 1..Len(pushed) |-> pushed[i].out]

\* extractContextWindow once parseDiffChunks has returned chunks
ContextWindowOf(filePath, lines, chunks) ==
    IF Len(chunks) = 0 THEN RawContent(lines)
    ELSE <<OutLine("title", 0, 0, filePath), Text("")>>
         \o RenderWindow(lines, WindowIndices(lines, chunks, contextWindowSize), -2)

extractContextWindow(filePath, lines, answer) ==
    ContextWindowOf(filePath, lines, parseDiffChunks(answer))

RECURSIVE FindHeaderLoop(_, _, _)
\* the loop of findHeaderEnd from 0-based index i on
FindHeaderLoop(lines, i, headerEnd) ==
    IF i >= Min(Len(lines), 30) THEN headerEnd
    ELSE LET line == lines[i + 1]
         IN  IF IsBlankOrComment(line) \/ IsHeaderContent(line)
             THEN FindHeaderLoop(lines, i + 1, i + 1)
             ELSE IF IsMainCode(line) THEN headerEnd
             ELSE FindHeaderLoop(lines, i + 1, headerEnd)

findHeaderEnd(lines) == FindHeaderLoop(lines, 0, 0)

NumberedFrom(lines, first) == [i \in 1..Len(lines) |-> Numbered(first + i - 1, lines[i])]

\* the upward search of findContainingBlock from 0-based index blockStart: the index
\* of the nearest declaration line at or above it, or -1
BlockStartLoop(lines, blockStart) ==
    LET hits == {i \in 0..blockStart :
                    /\ i + 1 <= Len(lines)
                    /\ lines[i + 1] # ""
                    /\ IsBlockStart(lines[i + 1])}
    IN  IF hits = {} THEN -1 ELSE CHOOSE i \in hits : \A j \in hits : j <= i

\* the largest number of braces on one line
MaxBraces(lines) ==
    IF lines = <<>> THEN 0 ELSE SeqMax([i \in 1..Len(lines) |-> Len(Braces(lines[i]))])

\* one slot for each of the first `width` braces of every line, kept when the line is
\* at or below blockStart and has a brace there
BraceSlots(lines, blockStart, width) ==
    [j \in 1..(width * Len(lines)) |->
        IF ((j - 1) % width) + 1 <= Len(Braces(lines[((j - 1) \div width) + 1]))
        THEN [keep |-> (j - 1) \div width >= blockStart,
              i |-> (j - 1) \div width,
              ch |-> Braces(lines[((j - 1) \div width) + 1])[((j - 1) % width) + 1]]
        ELSE [keep |-> FALSE, i |-> (j - 1) \div width, ch |-> ""]]

\* The downward scan of findContainingBlock. braces: the '{' and '}' of the lines
\* from 0-based index blockStart on, in order, each with the index i of its line.
BraceSeq(lines, blockStart) ==
    SelectSeq(BraceSlots(lines, blockStart, MaxBraces(lines)), LAMBDA e : e.keep)

\* braceCount and foundOpenBrace after the first p braces
BraceCount(braces, p) ==
    Cardinality({q \in 1..p : braces[q].ch = "{"}) - Cardinality({q \in 1..p : braces[q].ch = "}"})

FoundOpenBrace(braces, p) == \E q \in 1..p : braces[q].ch = "{"

\* the braces after which foundOpenBrace && braceCount === 0 is tested and holds: the
\* inner loop tests it after a '}', the outer loop after the last brace of a line
Balanced(braces) ==
    {p \in 1..Len(braces) :
        /\ FoundOpenBrace(braces, p)
        /\ BraceCount(braces, p) = 0
        /\ \/ braces[p].ch = "}"
           \/ p = Len(braces)
           \/ braces[p + 1].i # braces[p].i}

\* The scan ends at the first such brace: at a '}' the inner loop sets blockEnd to the
\* index of the line and breaks; at a '{' the outer loop breaks and blockEnd keeps its
\* initial value, as it does when the lines run out.
BlockEndAt(braces, balanced, blockEnd) ==
    IF \E p \in balanced : braces[p].ch = "}" /\ \A q \in balanced : p <= q
    THEN braces[CHOOSE p \in balanced : \A q \in balanced : p <= q].i
    ELSE blockEnd

BlockEndFrom(braces, blockEnd) == BlockEndAt(braces, Balanced(braces), blockEnd)

BlockEndLoop(lines, blockStart, blockEnd) ==
    BlockEndFrom(BraceSeq(lines, blockStart), blockEnd)

\* blockStart after the upward search: the declaration found, or startLine - 10
BlockStartOf(found, startLine) == IF found < 0 THEN Max(0, startLine - 10) ELSE found

\* lines.slice(blockStart, blockEnd + 1), numbered
BlockText(lines, blockStart, endLine) ==
    NumberedFrom(Slice(lines, blockStart, BlockEndLoop(lines, blockStart, endLine - 1) + 1),
                 blockStart + 1)

\* findContainingBlock: the numbered lines of the block (empty: the '' it returns)
findContainingBlock(lines, startLine, endLine) ==
    BlockText(lines, BlockStartOf(BlockStartLoop(lines, startLine - 1), startLine), endLine)

\* affectedBlocks.add(blockContent) when blockContent is not empty
AddBlock(blocks, b) ==
    IF b = <<>> \/ \E i \in 1..Len(blocks) : blocks[i] = b THEN blocks ELSE Append(blocks, b)

RECURSIVE AffectedBlocks(_, _, _)
\* the Set of block texts, in insertion order, empty texts left out
AffectedBlocks(lines, chunks, blocks) ==
    IF chunks = <<>> THEN blocks
    ELSE AffectedBlocks(lines, Tail(chunks),
             AddBlock(blocks, findContainingBlock(lines, Head(chunks).startLine,
                                                  Head(chunks).endLine)))

RECURSIVE JoinBlocks(_)
JoinBlocks(blocks) ==
    IF blocks = <<>> THEN <<>>
    ELSE <<Text("")>> \o Head(blocks) \o JoinBlocks(Tail(blocks))

\* the header part of a result: the title line, the lines before headerEnd, a blank
HeaderPart(title, lines, headerEnd) ==
    IF headerEnd > 0
    THEN <<Text(title)>> \o NumberedFrom(Slice(lines, 0, headerEnd), 1) \o <<Text("")>>
    ELSE <<>>

\* extractAffectedBlocks once the blocks are collected
BlocksResult(filePath, lines, answer, blocks) ==
    IF blocks = <<>> THEN extractContextWindow(filePath, lines, answer)
    ELSE <<OutLine("title", 0, 0, filePath), Text("")>>
         \o HeaderPart("// header", lines, findHeaderEnd(lines))
         \o <<Text("// affected blocks")>>
         \o JoinBlocks(blocks)

\* extractAffectedBlocks once parseDiffChunks has returned chunks
AffectedBlocksOf(filePath, lines, answer, chunks) ==
    IF Len(chunks) = 0 THEN RawContent(lines)
    ELSE BlocksResult(filePath, lines, answer, AffectedBlocks(lines, chunks, <<>>))

extractAffectedBlocks(filePath, lines, answer) ==
    AffectedBlocksOf(filePath, lines, answer, parseDiffChunks(answer))

\* chunks.sort((a, b) => b.size - a.size), stable: x goes behind every chunk at least as large
InsertBySize(sorted, x) ==
    LET k == Cardinality({i \in 1..Len(sorted) : sorted[i].size >= x.size})
    IN  SubSeq(sorted, 1, k) \o <<x>> \o SubSeq(sorted, k + 1, Len(sorted))

RECURSIVE SortBySizeDesc(_)
SortBySizeDesc(chunks) ==
    IF chunks = <<>> THEN <<>>
    ELSE InsertBySize(SortBySizeDesc(SubSeq(chunks, 1, Len(chunks) - 1)), chunks[Len(chunks)])

selectImportantChunks(chunks, maxCount) ==
    IF Len(chunks) <= maxCount THEN chunks
    ELSE SubSeq(SortBySizeDesc(chunks), 1, maxCount)

\* one "key change" of extractSmartSummary: its heading, its window of lines, a blank
KeyChange(lines, chunk) ==
    LET contextStart == Max(0, chunk.startLine - 5)
        contextEnd == Min(Len(lines) - 1, chunk.endLine + 5)
    IN  <<OutLine("chunkhead", chunk.startLine, chunk.endLine, "")>>
        \o [k \in 1..Max(0, contextEnd - contextStart + 1) |->
               LET i == contextStart + k - 1
               IN  OutLine(IF i >= chunk.startLine - 1 /\ i <= chunk.endLine - 1
                           THEN "marked" ELSE "plain",
                           i + 1, 0, lines[i + 1])]
        \o <<Text("")>>

RECURSIVE KeyChanges(_, _)
KeyChanges(lines, chunks) ==
    IF chunks = <<>> THEN <<>>
    ELSE KeyChange(lines, Head(chunks)) \o KeyChanges(lines, Tail(chunks))

\* the "key changes" part of extractSmartSummary
KeyChangesPart(lines, importantChunks) ==
    IF Len(importantChunks) > 0
    THEN <<Text("// === key changes ===")>> \o KeyChanges(lines, importantChunks)
    ELSE <<>>

\* extractSmartSummary once parseDiffChunks has returned chunks
SmartSummaryOf(filePath, lines, chunks) ==
    <<OutLine("title", 0, 0, filePath), Text("")>>
    \o HeaderPart("// === header ===", lines, findHeaderEnd(lines))
    \o (IF Len(chunks) > 0
        THEN <<Text("// === change summary ==="), OutLine("chunkcount", Len(chunks), 0, "")>>
             \o [i \in 1..Len(chunks) |->
                    OutLine("chunk", chunks[i].startLine, chunks[i].endLine, chunks[i].type)]
             \o <<Text("")>>
        ELSE <<>>)
    \o KeyChangesPart(lines, selectImportantChunks(chunks, 3))

extractSmartSummary(filePath, lines, answer) ==
    SmartSummaryOf(filePath, lines, parseDiffChunks(answer))

\* a rejected promise: the error thrown by the call
Thrown == [thrown |-> TRUE]

IsThrown(x) == x = Thrown

\* the SmartContext extractSmartContext returns for the content extracted, or the error
\* an extractor let escape
SmartContextOf(analysis, extractedContent) ==
    IF \E i \in 1..Len(extractedContent) : extractedContent[i].t = "thrown" THEN Thrown
    ELSE [strategy |-> analysis.strategy,
          content |-> extractedContent,
          metadata |-> [originalSize |-> analysis.fileSize,
                        compressedSize |-> Len(extractedContent),
                        compressionRatio |-> IF analysis.fileSize > 0
                                             THEN Ratio(Len(extractedContent), analysis.fileSize)
                                             ELSE Ratio(1, 1),
                        estimatedTokens |-> analysis.estimatedTokens]]

\* extractSmartContext(filePath, analysis) on a file whose lines are `lines`
extractSmartContext(filePath, analysis, lines, answer) ==
    SmartContextOf(analysis,
        CASE analysis.strategy = "diff_only" -> extractDiffOnly(filePath, answer)
          [] analysis.strategy = "context_window" ->
                 extractContextWindow(filePath, lines, answer)
          [] analysis.strategy = "affected_blocks" ->
                 extractAffectedBlocks(filePath, lines, answer)
          [] analysis.strategy = "smart_summary" ->
                 extractSmartSummary(filePath, lines, answer)
          [] OTHER -> RawContent(lines))

(***************************************************************************)
(* SpecPipeline: getChangedFilesWithSmartContext over a working tree that  *)
(* is edited, and a baseline that moves, between and during runs.          *)
(***************************************************************************)
\* --- bounds of the pipeline model ---
\* calls of getChangedFilesWithSmartContext in a run
MaxRuns == 2

\* edits, deletions and baseline moves in a run
MaxChanges == 1

Paths == {"src/app.ts", "app.config.json"}

\* file contents of 4, 30, 120 lines and the empty file
cSmall == <<"imp", "efn{", "x", "}">>

cMid == <<"imp", "", "efn{">> \o Rep("x", 25) \o <<"}", "">>

cBig == <<"imp", "", "efn{">> \o Rep("x", 50) \o <<"}", "fn{">> \o Rep("x", 63) \o <<"}", "">>

cEmpty == <<"">>

FileContents == {cSmall, cMid, cBig, cEmpty}

\* the contents each path takes in a run
ContentsOf(p) == IF p = "src/app.ts" THEN FileContents ELSE {cMid}

\* diff texts: the four file-header lines, the hunks, the empty string after the last newline
DiffOf(body) == Rep(DiffLine("file", 0), 4) \o body \o <<DiffLine("", 0)>>

Hdr(c) == DiffLine("hdr", c)

dNone == <<>>

dOneAdd == DiffOf(<<Hdr(2), DiffLine(" ", 0), DiffLine("+", 0), DiffLine(" ", 0)>>)

dThree == DiffOf(<<Hdr(4), DiffLine("+", 0), Hdr(12), DiffLine("+", 0), Hdr(20), DiffLine("+", 0)>>)

dSix == DiffOf(<<Hdr(4), DiffLine("-", 0)>> \o Rep(DiffLine("+", 0), 5))

dForty == DiffOf(<<Hdr(10)>> \o Rep(DiffLine("+", 0), 40))

dNewSmall == DiffOf(<<Hdr(1)>> \o Rep(DiffLine("+", 0), 4) \o <<DiffLine("other", 0)>>)

dEmptied == DiffOf(<<Hdr(0)>> \o Rep(DiffLine("-", 0), 3))

\* the diffs git can answer for a working-tree file with these lines (<<>>: no file)
DiffsFor(lines) ==
    CASE lines = cSmall -> {dNone, dNewSmall}
      [] lines = cMid -> {dOneAdd, dThree, dSix}
      [] lines = cBig -> {dForty}
      [] OTHER -> {dEmptied}

\* what git can answer: one of the diffs, or a failure (no HEAD~1, not a repository)
AnswersFor(lines) ==
    {[fails |-> FALSE, diff |-> d] : d \in DiffsFor(lines)} \cup {[fails |-> TRUE, diff |-> <<>>]}

File(mtime, lines) == [exists |-> TRUE, mtime |-> mtime, lines |-> lines]

NoContext == [strategy |-> "none"]

\* getCacheKey: path and mtime, the path alone when statSync throws
getCacheKey(filePath) ==
    IF files[filePath].exists THEN <<filePath, files[filePath].mtime>> ELSE <<filePath, -1>>

\* the end of analyzeFileChanges: this.cache.set(cacheKey, analysis) when caching is on
Analysed(cacheKey, analysis) ==
    [analysis |-> analysis,
     cache |-> IF enableCaching THEN (cacheKey :> analysis) @@ cache ELSE cache]

\* analyzeFileChanges: [analysis, cache] or Thrown (readFileSync on a missing file)
analyzeFileChanges(filePath) ==
    IF enableCaching /\ getCacheKey(filePath) \in DOMAIN cache
    THEN [analysis |-> cache[getCacheKey(filePath)], cache |-> cache]
    ELSE IF ~files[filePath].exists THEN Thrown
    ELSE Analysed(getCacheKey(filePath),
                  BuildAnalysis(filePath, Len(files[filePath].lines), detectFileType(filePath),
                                getDiffStats(git[filePath]),
                                detectApiChanges(files[filePath].lines)))

\* the file was skipped by the catch clause of the loop
Skipped(newCache) == [ok |-> FALSE, cache |-> newCache, result |-> NoContext]

\* results.push({filePath, context, analysis}), unless extractSmartContext threw
PushResult(filePath, a, context) ==
    IF IsThrown(context) THEN Skipped(a.cache)
    ELSE [ok |-> TRUE, cache |-> a.cache,
          result |-> [filePath |-> filePath, context |-> context, analysis |-> a.analysis]]

\* the body of the for loop once analyzeFileChanges has returned or thrown a;
\* extractSmartContext starts with readFileSync, which throws on a missing file
AfterAnalysis(filePath, a) ==
    IF IsThrown(a) THEN Skipped(cache)
    ELSE IF ~files[filePath].exists THEN Skipped(a.cache)
    ELSE PushResult(filePath, a,
                    extractSmartContext(filePath, a.analysis, files[filePath].lines,
                                        git[filePath]))

\* the body of the for loop of getChangedFilesWithSmartContext for one file:
\* [ok, cache, result]; ok is FALSE when the catch clause skipped the file
processOneFile(filePath) == AfterAnalysis(filePath, analyzeFileChanges(filePath))

\* the lists of changed paths git can report, in order
Listings == {<<"src/app.ts">>, <<"src/app.ts", "app.config.json">>,
             <<"app.config.json", "src/app.ts">>}

InitPipeline ==
    /\ \E L \in {l \in [Paths -> FileContents] : \A p \in Paths : l[p] \in ContentsOf(p)} :
          /\ files = [p \in Paths |-> File(1, L[p])]
          /\ git \in {g \in [Paths -> UNION {AnswersFor(c) : c \in FileContents}] :
                         \A p \in Paths : g[p] \in AnswersFor(L[p])}
    /\ cache = <<>>
    /\ enableCaching \in BOOLEAN
    /\ changedFiles = <<>>
    /\ idx = 1
    /\ results = <<>>
    /\ skipped = {}
    /\ pc = "idle"
    /\ runs = 0
    /\ changes = 0
    /\ prev = [p \in Paths |-> [seen |-> FALSE, mtime |-> 0, context |-> NoContext]]
    /\ selIn = NoAnalysis
    /\ selOut = "none"
    /\ anIn = NoAnalysis
    /\ anOut = NoAnalysis
    /\ CacheUnused
    /\ ExtractUnused
    /\ PoolUnused

\* getChangedFilesWithSmartContext is called: getChangedFilesList answers a list of
\* the paths that exist, or throws and the call returns []
StartRun ==
    /\ pc \in {"idle", "done"}
    /\ runs < MaxRuns
    /\ runs' = runs + 1
    /\ results' = <<>>
    /\ skipped' = {}
    /\ idx' = 1
    /\ \/ \E listing \in Listings :
             /\ changedFiles' = SelectSeq(listing, LAMBDA p : files[p].exists)
             /\ pc' = "running"
       \/ /\ changedFiles' = <<>>
          /\ pc' = "done"
    /\ UNCHANGED <<files, git, cache, enableCaching, changes, prev, selVars, anVars, cacheVars,
                   exVars, poolVars>>

\* the effect of one iteration, with outcome r, on the cache, the results and the rest
Iterated(filePath, r) ==
    /\ cache' = r.cache
    /\ IF r.ok
       THEN /\ results' = Append(results, r.result)
            /\ prev' = [prev EXCEPT ![filePath] =
                           [seen |-> TRUE, mtime |-> files[filePath].mtime,
                            context |-> r.result.context]]
            /\ UNCHANGED skipped
       ELSE /\ skipped' = skipped \cup {filePath}
            /\ UNCHANGED <<results, prev>>

\* one iteration of the loop: analyze and extract, or skip the file on an error
ProcessFile ==
    /\ pc = "running"
    /\ idx <= Len(changedFiles)
    /\ Iterated(changedFiles[idx], processOneFile(changedFiles[idx]))
    /\ idx' = idx + 1
    /\ UNCHANGED <<files, git, enableCaching, changedFiles, pc, runs, changes, selVars, anVars,
                   cacheVars, exVars, poolVars>>

\* the loop is over: the call returns results
FinishRun ==
    /\ pc = "running"
    /\ idx > Len(changedFiles)
    /\ pc' = "done"
    /\ UNCHANGED <<files, git, cache, enableCaching, changedFiles, idx, results, skipped, runs,
                   changes, prev, selVars, anVars, cacheVars, exVars, poolVars>>

\* the file is written (or created): new content, later mtime, a diff that fits it
EditFile(p) ==
    /\ changes < MaxChanges
    /\ changes' = changes + 1
    /\ \E lines \in ContentsOf(p) \ {files[p].lines} :
          /\ files' = [files EXCEPT ![p] = File(files[p].mtime + 1, lines)]
          /\ \E a \in AnswersFor(lines) : git' = [git EXCEPT ![p] = a]
    /\ UNCHANGED <<cache, enableCaching, changedFiles, idx, results, skipped, pc, runs, prev,
                   selVars, anVars, cacheVars, exVars, poolVars>>

\* the file is removed from the working tree
DeleteFile(p) ==
    /\ changes < MaxChanges
    /\ files[p].exists
    /\ changes' = changes + 1
    /\ files' = [files EXCEPT ![p] = [exists |-> FALSE, mtime |-> files[p].mtime, lines |-> <<>>]]
    /\ \E a \in AnswersFor(<<>>) : git' = [git EXCEPT ![p] = a]
    /\ UNCHANGED <<cache, enableCaching, changedFiles, idx, results, skipped, pc, runs, prev,
                   selVars, anVars, cacheVars, exVars, poolVars>>

\* the baseline moves (a commit, a checkout) or git starts or stops failing: the
\* answer for the unchanged file changes
VcsChange(p) ==
    /\ changes < MaxChanges
    /\ changes' = changes + 1
    /\ \E a \in AnswersFor(files[p].lines) \ {git[p]} : git' = [git EXCEPT ![p] = a]
    /\ UNCHANGED <<files, cache, enableCaching, changedFiles, idx, results, skipped, pc, runs,
                   prev, selVars, anVars, cacheVars, exVars, poolVars>>

NextPipeline ==
    \/ StartRun
    \/ ProcessFile
    \/ FinishRun
    \/ \E p \in Paths : EditFile(p)
    \/ \E p \in Paths : DeleteFile(p)
    \/ \E p \in Paths : VcsChange(p)

SpecPipeline == InitPipeline /\ [][NextPipeline]_vars

(***************************************************************************)
(* SpecSelect: the selector on every combination of the factors it reads   *)
(***************************************************************************)
\* file sizes on both sides of the selector's thresholds 20, 50, 100, 150
SelFileSizes == {0, 1, 19, 20, 21, 49, 50, 51, 99, 100, 101, 149, 150, 151, 300}

\* change ratios on both sides of 0.1, 0.3, 0.7 and 1
SelRatios ==
    {Ratio(0, 1), Ratio(1, 20), Ratio(1, 10), Ratio(11, 100), Ratio(3, 10), Ratio(31, 100),
     Ratio(1, 2), Ratio(7, 10), Ratio(71, 100), Ratio(1, 1), Ratio(8, 5)}

SelInputs ==
    [isDeleted : BOOLEAN, isNewFile : BOOLEAN, fileSize : SelFileSizes, fileType : FileType,
     changeRatio : SelRatios, chunkCount : 0..4, hasApiChanges : BOOLEAN]

InitSelect ==
    /\ selIn \in SelInputs
    /\ selOut = "none"
    /\ anIn = NoAnalysis
    /\ anOut = NoAnalysis
    /\ CacheUnused
    /\ PipelineUnused
    /\ ExtractUnused
    /\ PoolUnused

Select ==
    /\ selOut = "none"
    /\ selOut' = selectOptimalStrategy(selIn)
    /\ UNCHANGED <<selIn, anVars, cacheVars, pipeVars, exVars, poolVars>>

NextSelect == Select

SpecSelect == InitSelect /\ [][NextSelect]_vars

(***************************************************************************)
(* SpecAnalyze: BuildAnalysis on every combination of line count and       *)
(* added/deleted counts                                                    *)
(***************************************************************************)
AnFileSizes == {1, 10, 19, 20, 40, 100, 150, 300}

AnCounts == {0, 1, 5, 8, 10, 40, 60, 110, 120, 300}

AnChunkLists ==
    {<<>>,
     <<Chunk(3, 7, 5, "addition")>>,
     <<Chunk(1, 4, 4, "modification"), Chunk(20, 29, 10, "addition"),
       Chunk(50, 50, 1, "deletion"), Chunk(90, 95, 6, "modification")>>}

\* git counts as added only lines of the file that was read
AnInputs ==
    {x \in [fileSize : AnFileSizes, fileType : FileType,
            diffStats : [additions : AnCounts, deletions : AnCounts, chunks : AnChunkLists],
            hasApiChanges : BOOLEAN] : x.diffStats.additions <= x.fileSize}

InitAnalyze ==
    /\ anIn \in AnInputs
    /\ anOut = NoAnalysis
    /\ selIn = NoAnalysis
    /\ selOut = "none"
    /\ CacheUnused
    /\ PipelineUnused
    /\ ExtractUnused
    /\ PoolUnused

Analyze ==
    /\ anOut = NoAnalysis
    /\ anOut' = BuildAnalysis("f", anIn.fileSize, anIn.fileType, anIn.diffStats,
                              anIn.hasApiChanges)
    /\ UNCHANGED <<anIn, selVars, cacheVars, pipeVars, exVars, poolVars>>

NextAnalyze == Analyze

SpecAnalyze == InitAnalyze /\ [][NextAnalyze]_vars

(***************************************************************************)
(* SpecExtract: the diff parser, the analysis and the ContextWindow and    *)
(* AffectedBlocks extractors on one file and one answer of git.            *)
(***************************************************************************)
\* the kinds of source line of the short files
LineKinds == {"imp", "efn{", "x", "}", ""}

\* the longest short file
MaxFileLines == 4

\* content.split('\n') has at least one line
ExFiles == UNION {[1..n -> LineKinds] : n \in 1..MaxFileLines} \cup {cMid, cBig}

\* a diff with one hunk at new-file line c: a context line, an added line, a context line
dHunkAt(c) == DiffOf(<<Hdr(c), DiffLine(" ", 0), DiffLine("+", 0), DiffLine(" ", 0)>>)

\* the first lines deleted (new-file start 0), then a second hunk
dHeadDeleted == DiffOf(<<Hdr(0), DiffLine("-", 0), Hdr(3), DiffLine("+", 0)>>)

dTwoHunks == DiffOf(<<Hdr(1), DiffLine("+", 0), Hdr(3), DiffLine("-", 0), DiffLine("+", 0)>>)

dFarHunk == DiffOf(<<Hdr(60), DiffLine("+", 0)>>)

\* four hunks of one, three, two and one added lines
dFour ==
    DiffOf(<<Hdr(10), DiffLine("+", 0), Hdr(30)>> \o Rep(DiffLine("+", 0), 3)
           \o <<Hdr(50)>> \o Rep(DiffLine("+", 0), 2) \o <<Hdr(70), DiffLine("+", 0)>>)

\* two hunks more than two windows apart
dApart == DiffOf(<<Hdr(2), DiffLine("+", 0), Hdr(100), DiffLine("-", 0), DiffLine("+", 0)>>)

\* texts without a hunk header
dNoHeader == Rep(DiffLine("file", 0), 4) \o <<DiffLine("+", 0), DiffLine("-", 0), DiffLine("", 0)>>

dGarbage == <<DiffLine("other", 0), DiffLine("other", 0)>>

dBarePlus == <<DiffLine("+", 0)>>

ExDiffs ==
    {dHunkAt(c) : c \in {0, 1, 2, 3, 6}}
    \cup {dNone, dHeadDeleted, dTwoHunks, dFarHunk, dApart, dFour, dThree, dForty, dEmptied,
          dNoHeader, dGarbage, dBarePlus}

ExAnswers == {[fails |-> FALSE, diff |-> d] : d \in ExDiffs} \cup {[fails |-> TRUE, diff |-> <<>>]}

InitExtract ==
    /\ exIn \in [lines : ExFiles, answer : ExAnswers]
    /\ exOut = [called |-> FALSE]
    /\ selIn = NoAnalysis
    /\ selOut = "none"
    /\ anIn = NoAnalysis
    /\ anOut = NoAnalysis
    /\ CacheUnused
    /\ PipelineUnused
    /\ PoolUnused

\* parseDiffChunks, analyzeFileChanges (no cache), extractContextWindow,
\* extractSmartSummary and extractAffectedBlocks are called on the file
Extract ==
    /\ ~exOut.called
    /\ exOut' = [called |-> TRUE,
                 chunks |-> parseDiffChunks(exIn.answer),
                 analysis |-> BuildAnalysis("src/app.ts", Len(exIn.lines),
                                            detectFileType("src/app.ts"),
                                            getDiffStats(exIn.answer),
                                            detectApiChanges(exIn.lines)),
                 window |-> extractContextWindow("src/app.ts", exIn.lines, exIn.answer),
                 summary |-> extractSmartSummary("src/app.ts", exIn.lines, exIn.answer),
                 blocks |-> extractAffectedBlocks("src/app.ts", exIn.lines, exIn.answer)]
    /\ UNCHANGED <<exIn, selVars, anVars, cacheVars, pipeVars, poolVars>>

NextExtract == Extract

SpecExtract == InitExtract /\ [][NextExtract]_vars

(***************************************************************************)
(* SpecParse: parseDiffChunks on every diff text of up to MaxDiffLines     *)
(* lines, the for loop taken one line at a time.                           *)
(***************************************************************************)
\* the longest diff text
MaxDiffLines == 5

\* let currentChunk = null; let currentLineNum = 0; const chunks = []
ParseStart ==
    [chunks |-> <<>>,
     currentChunk |-> [set |-> FALSE, startLine |-> 0, type |-> "modification"],
     currentLineNum |-> 0]

\* currentChunk.type = 'addition'
TypeAfterPlus(type) == "addition"

\* currentChunk.type = currentChunk.type === 'addition' ? 'modification' : 'deletion'
TypeAfterMinus(type) == IF type = "addition" THEN "modification" ELSE "deletion"

\* a parser that starts the new chunk one line below the header's start
HeaderStartShifted(line) == line.c + 1

\* parseInt(chunkHeaderMatch[2] || '0'): the new-file start of the header
HeaderStart(line) == line.c

\* one iteration of the for loop on the line
ParseLine(st, line) ==
    IF line.k = "hdr"
    THEN [chunks |-> IF st.currentChunk.set
                     THEN Append(st.chunks,
                                 Chunk(st.currentChunk.startLine, st.currentLineNum - 1,
                                       st.currentLineNum - st.currentChunk.startLine,
                                       st.currentChunk.type))
                     ELSE st.chunks,
          currentChunk |-> [set |-> TRUE, startLine |-> HeaderStart(line),
                            type |-> "modification"],
          currentLineNum |-> HeaderStart(line)]
    ELSE IF line.k = "file" \/ ~st.currentChunk.set THEN st
    ELSE IF line.k = "+"
    THEN [st EXCEPT !.currentChunk.type = TypeAfterPlus(@), !.currentLineNum = @ + 1]
    ELSE IF line.k = "-"
    THEN [st EXCEPT !.currentChunk.type = TypeAfterMinus(@)]
    ELSE IF line.k \in {" ", ""}
    THEN [st EXCEPT !.currentLineNum = @ + 1]
    ELSE st

\* the for loop over the lines
RECURSIVE ParseLines(_, _)
ParseLines(lines, st) ==
    IF lines = <<>> THEN st ELSE ParseLines(Tail(lines), ParseLine(st, Head(lines)))

\* the push of the last chunk after the loop
ParseEnd(st) ==
    IF st.currentChunk.set
    THEN Append(st.chunks,
                Chunk(st.currentChunk.startLine, st.currentLineNum,
                      st.currentLineNum - st.currentChunk.startLine + 1,
                      st.currentChunk.type))
    ELSE st.chunks

\* parseDiffChunks with its loop run line by line
parseDiffChunksByLine(answer) ==
    IF answer.fails THEN <<>>
    ELSE IF IsBlankDiff(answer.diff) THEN <<>>
    ELSE ParseEnd(ParseLines(answer.diff, ParseStart))

\* the lines a diff text is made of: two hunk headers, added, deleted, context and
\* empty lines, file-header lines
ParseLineKinds ==
    {Hdr(1), Hdr(3), DiffLine("+", 0), DiffLine("-", 0), DiffLine(" ", 0),
     DiffLine("", 0), DiffLine("file", 0)}

ParseDiffs == UNION {[1..n -> ParseLineKinds] : n \in 0..MaxDiffLines}

ParseAnswers == {[fails |-> FALSE, diff |-> d] : d \in ParseDiffs}

InitParse ==
    /\ exIn \in [lines : {<<"x">>}, answer : ParseAnswers]
    /\ exOut = [called |-> FALSE]
    /\ selIn = NoAnalysis
    /\ selOut = "none"
    /\ anIn = NoAnalysis
    /\ anOut = NoAnalysis
    /\ CacheUnused
    /\ PipelineUnused
    /\ PoolUnused

\* parseDiffChunks is called on the diff text
Parse ==
    /\ ~exOut.called
    /\ exOut' = [called |-> TRUE, chunks |-> parseDiffChunksByLine(exIn.answer)]
    /\ UNCHANGED <<exIn, selVars, anVars, cacheVars, pipeVars, poolVars>>

NextParse == Parse

SpecParse == InitParse /\ [][NextParse]_vars

(***************************************************************************)
(* SpecPool: the worker pool of ParallelProcessor.  submitTask pushes the  *)
(* task and calls processQueue, which hands one task to an idle worker and *)
(* waits for executeTask; when that promise settles the same call of       *)
(* processQueue goes round its loop again.  The pool has                   *)
(* min(minWorkers, maxWorkers) workers with maxWorkers 1 or 2, so          *)
(* checkScaling finds nothing to add or remove.  Each task in a worker     *)
(* replies, fails or times out (weak fairness of Settle) and the           *)
(* monitoring timer keeps firing (weak fairness of HealthCheck).           *)
(***************************************************************************)
\* the tasks submitted
MaxTasks == 3

TaskIds == 1..MaxTasks

\* config.queueSize, kept small so that a full queue happens
queueSize == 2

\* DEFAULT_CONFIG.minWorkers
minWorkers == 2

\* task.options.priority
Priority(t) == IF t = 3 THEN 2 ELSE 1

IdleWorker == [status |-> "idle", currentTask |-> 0]

\* findAvailableWorker ('least-loaded'): the first idle worker, 0 for null
findAvailableWorker(workers) ==
    IF \E w \in 1..Len(workers) : workers[w].status = "idle"
    THEN CHOOSE w \in 1..Len(workers) :
             /\ workers[w].status = "idle"
             /\ \A v \in 1..(w - 1) : workers[v].status # "idle"
    ELSE 0

\* getNextTask: the queue sorted by descending priority (a stable sort), then shift():
\* the position of the first task of the highest priority
NextTaskAt(taskQueue) ==
    CHOOSE k \in 1..Len(taskQueue) :
        /\ \A j \in 1..Len(taskQueue) : Priority(taskQueue[j]) <= Priority(taskQueue[k])
        /\ \A j \in 1..(k - 1) : Priority(taskQueue[j]) < Priority(taskQueue[k])

\* the queue after getNextTask: sorted, without its head
QueueAfterShift(taskQueue) ==
    SelectSeq([j \in 1..Len(taskQueue) |-> IF j = NextTaskAt(taskQueue) THEN 0 ELSE taskQueue[j]],
              LAMBDA t : t # 0 /\ Priority(t) = 2)
    \o SelectSeq([j \in 1..Len(taskQueue) |-> IF j = NextTaskAt(taskQueue) THEN 0 ELSE taskQueue[j]],
                 LAMBDA t : t # 0 /\ Priority(t) = 1)

\* one round of the while loop of processQueue, up to `await executeTask(task)`: the
\* next task goes to an idle worker, or the loop breaks and the call returns
processQueue(p) ==
    IF Len(p.taskQueue) > 0 /\ findAvailableWorker(p.workers) # 0
    THEN [workers |-> [p.workers EXCEPT ![findAvailableWorker(p.workers)] =
                          [status |-> "busy", currentTask |-> p.taskQueue[NextTaskAt(p.taskQueue)]]],
          taskQueue |-> QueueAfterShift(p.taskQueue),
          tasks |-> [p.tasks EXCEPT ![p.taskQueue[NextTaskAt(p.taskQueue)]] = "running"]]
    ELSE p

\* await initialize(): min(minWorkers, maxWorkers) workers
InitPool ==
    /\ pool \in {[workers |-> [w \in 1..n |-> IdleWorker],
                  taskQueue |-> <<>>,
                  tasks |-> [t \in TaskIds |-> "new"]] : n \in {1, minWorkers}}
    /\ rq = [pc |-> "idle"]
    /\ selIn = NoAnalysis
    /\ selOut = "none"
    /\ anIn = NoAnalysis
    /\ anOut = NoAnalysis
    /\ CacheUnused
    /\ PipelineUnused
    /\ ExtractUnused

\* submitTask(task): refused when the queue is full, else pushed, then processQueue()
SubmitTask(t) ==
    /\ pool.tasks[t] = "new"
    /\ pool' = IF Len(pool.taskQueue) >= queueSize
               THEN [pool EXCEPT !.tasks[t] = "refused"]
               ELSE processQueue([pool EXCEPT !.taskQueue = Append(@, t), !.tasks[t] = "queued"])
    /\ UNCHANGED <<rq, selVars, anVars, cacheVars, pipeVars, exVars>>

\* the worker's message for its task: completeTask, resolve, and the waiting
\* processQueue goes on
Reply(w) ==
    /\ pool.workers[w].status = "busy"
    /\ pool' = processQueue([pool EXCEPT !.workers[w] = IdleWorker,
                                         !.tasks[pool.workers[w].currentTask] = "resolved"])
    /\ UNCHANGED <<rq, selVars, anVars, cacheVars, pipeVars, exVars>>

\* the worker's 'error' event: status 'error' from the handler of setupEventHandlers,
\* then completeTask sets 'idle'; reject, and the waiting processQueue goes on
WorkerError(w) ==
    /\ pool.workers[w].status = "busy"
    /\ pool' = processQueue([pool EXCEPT !.workers[w] = IdleWorker,
                                         !.tasks[pool.workers[w].currentTask] = "rejected"])
    /\ UNCHANGED <<rq, selVars, anVars, cacheVars, pipeVars, exVars>>

\* the task's timer: handleTaskTimeout sets status 'error' and currentTask null;
\* reject, and the waiting processQueue goes on
TaskTimeout(w) ==
    /\ pool.workers[w].status = "busy"
    /\ pool' = processQueue([pool EXCEPT !.workers[w] = [status |-> "error", currentTask |-> 0],
                                         !.tasks[pool.workers[w].currentTask] = "rejected"])
    /\ UNCHANGED <<rq, selVars, anVars, cacheVars, pipeVars, exVars>>

\* a task in a worker replies, fails or times out
Settle == \E w \in 1..Len(pool.workers) : Reply(w) \/ WorkerError(w) \/ TaskTimeout(w)

\* the monitoring timer: checkWorkerHealth replaces every worker in status 'error'
HealthCheck ==
    /\ \E w \in 1..Len(pool.workers) : pool.workers[w].status = "error"
    /\ pool' = [pool EXCEPT !.workers =
                   [w \in 1..Len(pool.workers) |->
                       IF pool.workers[w].status = "error" THEN IdleWorker ELSE pool.workers[w]]]
    /\ UNCHANGED <<rq, selVars, anVars, cacheVars, pipeVars, exVars>>

NextPool ==
    \/ \E t \in TaskIds : SubmitTask(t)
    \/ Settle
    \/ HealthCheck

SpecPool == InitPool /\ [][NextPool]_vars /\ WF_vars(Settle) /\ WF_vars(HealthCheck)

(***************************************************************************)
(* SpecQueue: runQueue(items, worker).  The items are files that the       *)
(* worker handles, files whose worker throws, and falsy values; the        *)
(* environment holds AI_CR_MAX_WORKERS and AI_CR_ENABLE_PARALLEL.  Every   *)
(* worker that was started finishes, and the loops keep running (weak      *)
(* fairness of NextQueue).                                                 *)
(***************************************************************************)
\* the longest item list
MaxItems == 3

ItemKinds == {"ok", "throws", "falsy"}

ItemLists == UNION {[1..n -> ItemKinds] : n \in 0..MaxItems}

\* process.env.AI_CR_MAX_WORKERS and process.env.AI_CR_ENABLE_PARALLEL
QueueEnvs == [AI_CR_MAX_WORKERS : {"unset", "0", "1", "2", "abc"},
              AI_CR_ENABLE_PARALLEL : {"unset", "true"}]

\* a JavaScript number: an integer or NaN
Num(n) == [nan |-> FALSE, n |-> n]

NaN == [nan |-> TRUE, n |-> 0]

\* parseInt(process.env.AI_CR_MAX_WORKERS || '1')
maxConcurrencyOf(env) ==
    CASE env.AI_CR_MAX_WORKERS = "unset" -> Num(1)
      [] env.AI_CR_MAX_WORKERS = "0" -> Num(0)
      [] env.AI_CR_MAX_WORKERS = "1" -> Num(1)
      [] env.AI_CR_MAX_WORKERS = "2" -> Num(2)
      [] OTHER -> NaN

\* a < b and a + b on numbers
NumLess(a, b) == ~a.nan /\ ~b.nan /\ a.n < b.n

NumAdd(a, b) == IF a.nan \/ b.nan THEN NaN ELSE Num(a.n + b.n)

\* process.env.AI_CR_ENABLE_PARALLEL === 'true' || maxConcurrency > 1
enableParallelOf(env) ==
    env.AI_CR_ENABLE_PARALLEL = "true" \/ NumLess(Num(1), maxConcurrencyOf(env))

\* the 1-based positions of items.slice(i, i + maxConcurrency), for i >= 0
BatchOf(items, i, maxConcurrency) ==
    LET end == NumAdd(i, maxConcurrency)
        last == IF end.nan THEN 0
                ELSE IF end.n < 0 THEN Max(Len(items) + end.n, 0)
                ELSE Min(end.n, Len(items))
    IN  (i.n + 1)..last

\* runQueue is called
InitQueue ==
    /\ rq \in {[items |-> items, env |-> env, pc |-> "call", i |-> Num(0), inFlight |-> {},
                invoked |-> [k \in 1..Len(items) |-> 0]] :
               items \in ItemLists, env \in QueueEnvs}
    /\ pool = [workers |-> <<>>]
    /\ selIn = NoAnalysis
    /\ selOut = "none"
    /\ anIn = NoAnalysis
    /\ anOut = NoAnalysis
    /\ CacheUnused
    /\ PipelineUnused
    /\ ExtractUnused

\* runQueue: the branch on enableParallel && items.length > 1
runQueue ==
    /\ rq.pc = "call"
    /\ rq' = [rq EXCEPT !.pc = IF enableParallelOf(rq.env) /\ Len(rq.items) > 1
                                THEN "parallel" ELSE "sequential"]
    /\ UNCHANGED <<pool, selVars, anVars, cacheVars, pipeVars, exVars>>

\* runParallelQueue: the loop test, and the batch whose callbacks run up to
\* `await worker(item)`, then `await Promise.all(batchPromises)`
StartBatch ==
    /\ rq.pc = "parallel"
    /\ rq' = IF NumLess(rq.i, Num(Len(rq.items)))
             THEN [rq EXCEPT !.pc = "all",
                             !.inFlight = BatchOf(rq.items, rq.i, maxConcurrencyOf(rq.env)),
                             !.invoked = [k \in 1..Len(rq.items) |->
                                 IF k \in BatchOf(rq.items, rq.i, maxConcurrencyOf(rq.env))
                                 THEN rq.invoked[k] + 1 ELSE rq.invoked[k]]]
             ELSE [rq EXCEPT !.pc = "done"]
    /\ UNCHANGED <<pool, selVars, anVars, cacheVars, pipeVars, exVars>>

\* a worker of the batch resolves or throws; the callback's try/catch takes both
WorkerDone(k) ==
    /\ rq.pc = "all"
    /\ k \in rq.inFlight
    /\ rq' = [rq EXCEPT !.inFlight = @ \ {k}]
    /\ UNCHANGED <<pool, selVars, anVars, cacheVars, pipeVars, exVars>>

\* Promise.all settles, then i += maxConcurrency
BatchDone ==
    /\ rq.pc = "all"
    /\ rq.inFlight = {}
    /\ rq' = [rq EXCEPT !.pc = "parallel", !.i = NumAdd(rq.i, maxConcurrencyOf(rq.env))]
    /\ UNCHANGED <<pool, selVars, anVars, cacheVars, pipeVars, exVars>>

\* runSequentialQueue: the loop test, `if (!item) continue`, `await worker(item)`
SequentialStep ==
    /\ rq.pc = "sequential"
    /\ rq' = IF rq.i.n < Len(rq.items)
             THEN IF rq.items[rq.i.n + 1] = "falsy"
                  THEN [rq EXCEPT !.i = Num(rq.i.n + 1)]
                  ELSE [rq EXCEPT !.pc = "worker",
                                  !.inFlight = {rq.i.n + 1},
                                  !.invoked[rq.i.n + 1] = @ + 1]
             ELSE [rq EXCEPT !.pc = "done"]
    /\ UNCHANGED <<pool, selVars, anVars, cacheVars, pipeVars, exVars>>

\* the worker resolves or throws; the try/catch takes both, then i++
SequentialDone ==
    /\ rq.pc = "worker"
    /\ rq' = [rq EXCEPT !.pc = "sequential", !.inFlight = {}, !.i = Num(rq.i.n + 1)]
    /\ UNCHANGED <<pool, selVars, anVars, cacheVars, pipeVars, exVars>>

NextQueue ==
    \/ runQueue
    \/ StartBatch
    \/ \E k \in 1..MaxItems : WorkerDone(k)
    \/ BatchDone
    \/ SequentialStep
    \/ SequentialDone

SpecQueue == InitQueue /\ [][NextQueue]_vars /\ WF_vars(NextQueue)

(***************************************************************************)
(* C1: for every analysis the selector returns the result of the ordered   *)
(* eight-rule decision table, the first matching rule deciding.            *)
(***************************************************************************)
\* the decision table as a list of <<condition, result>> rows
DecisionTable(a) ==
    << <<a.isDeleted, "diff_only">>,
       <<a.isNewFile /\ a.fileSize < 100, "full_file">>,
       <<a.isNewFile, "smart_summary">>,
       <<a.fileSize < 20, "full_file">>,
       <<a.fileType = "config" /\ a.fileSize < 50, "full_file">>,
       <<10 * a.changeRatio.num <= a.changeRatio.den,
         IF a.chunkCount <= 2 THEN "diff_only" ELSE "context_window">>,
       <<10 * a.changeRatio.num <= 3 * a.changeRatio.den,
         IF a.hasApiChanges THEN "affected_blocks" ELSE "context_window">>,
       <<10 * a.changeRatio.num <= 7 * a.changeRatio.den,
         IF a.fileSize > 100 THEN "smart_summary" ELSE "affected_blocks">>,
       <<TRUE, IF a.fileSize < 150 THEN "full_file" ELSE "smart_summary">> >>

FirstMatch(rows) == rows[CHOOSE i \in 1..Len(rows) : rows[i][1] /\ \A j \in 1..(i - 1) : ~rows[j][1]][2]

C2_RatioWithinUnit ==
    anOut # NoAnalysis => (0 <= anOut.changeRatio.num /\ anOut.changeRatio.num <= anOut.changeRatio.den)

\* one iteration of the loop of getChangedFilesWithSmartContext, on file CurrentFile
LoopStep == pc = "running" /\ idx <= Len(changedFiles) /\ idx' = idx + 1

CurrentFile == changedFiles[idx]

\* the iteration pushed a result, PushedResult
Pushed == Len(results') = Len(results) + 1

PushedResult == results'[Len(results')]

\* the iteration finds the analysis of CurrentFile in the cache
AnalysisCached == enableCaching /\ getCacheKey(CurrentFile) \in DOMAIN cache

(***************************************************************************)
(* C3: with caching on, when a file is analyzed and extracted again with   *)
(* the same path and mtime as at its previous result, the context is       *)
(* identical to the previous one, whatever git answers now.                *)
(***************************************************************************)
C3_RepeatIsCacheHit ==
    [][(/\ LoopStep
        /\ enableCaching
        /\ files[CurrentFile].exists
        /\ prev[CurrentFile].seen
        /\ prev[CurrentFile].mtime = files[CurrentFile].mtime)
          => (Pushed /\ PushedResult.context = prev[CurrentFile].context)]_vars

(***************************************************************************)
(* C4: a set on a key whose entry has the same content hash, without       *)
(* forceUpdate, changes only that entry's lastAccessed: every other field  *)
(* of it, every other entry, the order and number of entries and the       *)
(* statistics stay as they were, and nothing is evicted.                   *)
(***************************************************************************)
\* this step is a set call that found its key holding the hash of its value
SameHashSetStep ==
    /\ ops' = ops + 1
    /\ lastOp'.op = "set"
    /\ lastOp'.ret
    /\ ~lastOp'.call.forceUpdate
    /\ \E i \in 1..Len(memoryCache) :
          /\ memoryCache[i].key = lastOp'.call.key
          /\ memoryCache[i].hash = generateHash(lastOp'.call.value)

C4_SameHashSetOnlyRefreshes ==
    [][SameHashSetStep =>
          /\ stats' = stats
          /\ Len(memoryCache') = Len(memoryCache)
          /\ \A i \in 1..Len(memoryCache) :
                IF memoryCache[i].key = lastOp'.call.key
                THEN [memoryCache'[i] EXCEPT !.lastAccessed = 0]
                         = [memoryCache[i] EXCEPT !.lastAccessed = 0]
                ELSE memoryCache'[i] = memoryCache[i]]_vars

\* a set with other options than the entry was stored with took the short-circuit
\* at a later time: the entry keeps its creation time and tags, its access time moved
C4_Witness ==
    /\ lastOp.op = "set"
    /\ lastOp.ret
    /\ ~lastOp.call.forceUpdate
    /\ \E i \in 1..Len(memoryCache) :
          /\ memoryCache[i].key = lastOp.call.key
          /\ memoryCache[i].hash = generateHash(lastOp.call.value)
          /\ memoryCache[i].timestamp < now
          /\ memoryCache[i].lastAccessed = now
          /\ memoryCache[i].metadata.tags # lastOp.call.tags
          /\ memoryCache[i].value # lastOp.call.value
    /\ Len(memoryCache) = 2

(***************************************************************************)
(* C5: after a set whose insert would take the total cached size over the  *)
(* byte budget, the total cached size is at most the budget and at least   *)
(* 0.8 times the budget.                                                   *)
(***************************************************************************)
\* this step is a set call that inserted while total + size exceeded the budget
OverflowSetStep ==
    /\ ops' = ops + 1
    /\ lastOp'.op = "set"
    /\ lastOp'.ret
    /\ ~(/\ ~lastOp'.call.forceUpdate
         /\ \E i \in 1..Len(memoryCache) :
               /\ memoryCache[i].key = lastOp'.call.key
               /\ memoryCache[i].hash = generateHash(lastOp'.call.value))
    /\ SumSizes(memoryCache) + calculateSize(lastOp'.call.value) > maxSizeBytes

C5_OverflowKeepsBudget ==
    [][OverflowSetStep =>
          /\ SumSizes(memoryCache') <= maxSizeBytes
          /\ 10 * SumSizes(memoryCache') >= 8 * maxSizeBytes]_vars

(***************************************************************************)
(* C6: the number of cached entries never exceeds maxEntries.              *)
(***************************************************************************)
C6_EntryCountWithinBudget == Len(memoryCache) <= maxEntries

(***************************************************************************)
(* C7: set calls are serialized: while a set call is between its space     *)
(* check/eviction and its insertion, no other call changes the cache.      *)
(***************************************************************************)
C7_SetIsAtomic ==
    [][pending # <<>> => (memoryCache' = memoryCache \/ pending' = Tail(pending))]_vars

\* Two 9-byte entries side by side: no run of whole set calls produces this (it
\* holds under Spec), interleaved set calls do (it fails under SpecConc).
C7_NoTwoLargeEntries ==
    Cardinality({i \in 1..Len(memoryCache) : memoryCache[i].size = 9}) <= 1

(***************************************************************************)
(* C8: when git cannot produce a diff for a readable file, the analysis    *)
(* computed for it chooses the strategy full_file.                         *)
(***************************************************************************)
C8_DiffFailureGivesFullFile ==
    [][(/\ LoopStep
        /\ files[CurrentFile].exists
        /\ git[CurrentFile].fails
        /\ ~AnalysisCached)
          => (Pushed /\ PushedResult.analysis.strategy = "full_file")]_vars

(***************************************************************************)
(* C9: analyzing a path whose file does not exist or has zero lines does   *)
(* not throw; the analysis has isDeleted = TRUE and no chunks.             *)
(***************************************************************************)
C9_MissingOrEmptyFileIsDeleted ==
    [][(/\ LoopStep
        /\ (~files[CurrentFile].exists \/ files[CurrentFile].lines = cEmpty)
        /\ ~AnalysisCached)
          => (/\ Pushed
              /\ PushedResult.analysis.isDeleted
              /\ PushedResult.analysis.chunkCount = 0)]_vars

(***************************************************************************)
(* C10: for a readable file the loop always pushes a result whose context  *)
(* carries the strategy of the analysis, one of the five, and skips        *)
(* nothing, also when git fails; and the call returns only after every     *)
(* listed file was visited, each one either pushed or skipped.             *)
(***************************************************************************)
C10_ExtractNeverThrows ==
    [][/\ (LoopStep /\ files[CurrentFile].exists)
          => (/\ Pushed
              /\ PushedResult.filePath = CurrentFile
              /\ PushedResult.context.strategy = PushedResult.analysis.strategy
              /\ PushedResult.context.strategy \in ContextStrategy
              /\ skipped' = skipped)
       /\ (pc = "running" /\ pc' = "done")
          => (/\ idx = Len(changedFiles) + 1
              /\ Len(results) + Cardinality(skipped) = Len(changedFiles))]_vars

\* the first listed file was skipped (it vanished during the run), the second one
\* was extracted with diff_only although git fails for it, and the call returned
C10_Witness ==
    /\ pc = "done"
    /\ Len(changedFiles) = 2
    /\ changedFiles[1] \in skipped
    /\ Len(results) = 1
    /\ results[1].filePath = changedFiles[2]
    /\ results[1].context.strategy = "diff_only"
    /\ git[changedFiles[2]].fails

(***************************************************************************)
(* C11: for a file with one change region, when no declaration line is     *)
(* found at or above the region start, or the brace scan runs to the end   *)
(* of the file without the depth returning to zero, the AffectedBlocks      *)
(* extractor returns exactly what the ContextWindow extractor returns.      *)
(***************************************************************************)
\* the diff has exactly one region
OneRegion == exOut.called /\ Len(exOut.chunks) = 1

\* the upward search of findContainingBlock finds no declaration line
NoDeclarationFound == BlockStartLoop(exIn.lines, exOut.chunks[1].startLine - 1) < 0

\* the downward scan runs out of lines before the braces balance
ScanInconclusive ==
    Balanced(BraceSeq(exIn.lines,
                      BlockStartOf(BlockStartLoop(exIn.lines, exOut.chunks[1].startLine - 1),
                                   exOut.chunks[1].startLine))) = {}

C11_NoBlockFallsBackToWindow ==
    (OneRegion /\ (NoDeclarationFound \/ ScanInconclusive)) => exOut.blocks = exOut.window

(***************************************************************************)
(* C12: for every file content and every region list the diff parser can   *)
(* produce, every numbered line in the ContextWindow and AffectedBlocks    *)
(* output refers to a 0-based index in [0, file_line_count) and carries    *)
(* that line's actual text.                                                *)
(***************************************************************************)
\* the positions of the numbered lines of an extracted text
NumberedLines(out) == {i \in 1..Len(out) : out[i].t = "num"}

\* every numbered line names a line of the file and carries its text
RealLines(lines, out) ==
    \A i \in NumberedLines(out) :
        /\ out[i].n - 1 \in 0..(Len(lines) - 1)
        /\ out[i].s = lines[out[i].n]

C12_NumberedLinesAreReal ==
    exOut.called => (RealLines(exIn.lines, exOut.window) /\ RealLines(exIn.lines, exOut.blocks))

\* a region starting at line 0 and a region ending beyond the last line of the file,
\* both extractors printing numbered lines
C12_Witness ==
    /\ exOut.called
    /\ Len(exOut.chunks) = 2
    /\ exOut.chunks[1].startLine = 0
    /\ exOut.chunks[2].endLine > Len(exIn.lines)
    /\ NumberedLines(exOut.window) # {}
    /\ NumberedLines(exOut.blocks) # {}

(***************************************************************************)
(* C13: for two analyses that differ only in the change ratio, r1 <= r2,   *)
(* the strategy selected for r1 is not larger than the one selected for r2 *)
(* in the budget order DiffOnly < ContextWindow < AffectedBlocks <         *)
(* SmartSummary < FullFile.                                                *)
(***************************************************************************)
\* the position of a strategy in the budget order
BudgetRank(strategy) ==
    CASE strategy = "diff_only" -> 1
      [] strategy = "context_window" -> 2
      [] strategy = "affected_blocks" -> 3
      [] strategy = "smart_summary" -> 4
      [] strategy = "full_file" -> 5

\* the analysis selIn with another change ratio
WithRatio(r) == [selIn EXCEPT !.changeRatio = r]

C13_StrategyMonotoneInRatio ==
    selOut # "none" =>
        \A r2 \in SelRatios :
            RatioLeq(selIn.changeRatio, r2.num, r2.den) =>
                BudgetRank(selOut) <= BudgetRank(selectOptimalStrategy(WithRatio(r2)))

\* a modified 300-line file: the strategy selected grows with the ratio, from the
\* diff alone at 5% over the context window and the blocks to the summary
C13_Witness ==
    /\ selOut = "diff_only"
    /\ selIn.changeRatio = Ratio(1, 20)
    /\ selIn.fileSize = 300
    /\ ~selIn.isDeleted
    /\ selIn.hasApiChanges
    /\ selectOptimalStrategy(WithRatio(Ratio(3, 10))) = "affected_blocks"
    /\ selectOptimalStrategy(WithRatio(Ratio(71, 100))) = "smart_summary"

(***************************************************************************)
(* C14: every ChangeAnalysis returned by analyze satisfies: is_new implies *)
(* change_ratio = 1.0 and deleted_lines = 0; is_deleted implies            *)
(* added_lines = 0; is_new and is_deleted are never both true.             *)
(***************************************************************************)
C14_NewAndDeletedInvariants ==
    anOut # NoAnalysis =>
        /\ anOut.isNewFile =>
               (anOut.changeRatio.num = anOut.changeRatio.den /\ anOut.changeRatio.den > 0
                /\ anOut.deletions = 0)
        /\ anOut.isDeleted => anOut.additions = 0
        /\ ~(anOut.isNewFile /\ anOut.isDeleted)

\* a file whose diff adds each of its lines and deletes none is analysed as new
C14_Witness ==
    /\ anOut # NoAnalysis
    /\ anOut.isNewFile
    /\ anOut.fileSize = 10
    /\ anOut.additions = 10
    /\ anOut.totalChangedLines = 10

(***************************************************************************)
(* C15: get(key) never returns the value of an entry whose TTL has elapsed *)
(* (now > created_at + ttl_seconds): it returns no value, removes the      *)
(* entry and counts a miss, after any sequence of set, get, sweep and      *)
(* snapshot-load operations.                                               *)
(***************************************************************************)
\* this step is a call of get
GetStep == ops' = ops + 1 /\ lastOp'.op = "get"

\* the TTL of the entry has elapsed at time t
TtlElapsed(entry, t) == t > entry.timestamp + entry.ttl * 1000

C15_GetNeverReturnsExpired ==
    [][(GetStep /\ MapHas(memoryCache, lastOp'.call.key)
                /\ TtlElapsed(MapGet(memoryCache, lastOp'.call.key), now)) =>
          /\ ~lastOp'.ret
          /\ lastOp'.value = NoValue
          /\ ~MapHas(memoryCache', lastOp'.call.key)
          /\ stats'.misses = stats.misses + 1]_vars

\* an entry loaded from the snapshot outlived its TTL in memory; the get that found it
\* returned nothing, removed it and counted a miss, the other loaded entry stays
C15_Witness ==
    /\ lastOp.op = "get"
    /\ lastOp.call.key = "k1"
    /\ ~lastOp.ret
    /\ now = TickMs
    /\ disk = Snapshot(<<Pair(StoredEntry("k1", 1)), Pair(StoredEntry("k2", 0))>>)
    /\ MapKeys(memoryCache) = {"k2"}
    /\ stats.misses = 1
    /\ stats.entryCount = 1

(***************************************************************************)
(* C16: whenever eviction removes entries, the victims are the lowest      *)
(* ranked under the configured policy: under 'lru' no retained entry has   *)
(* an older last access than an evicted one, under 'lfu' none has a lower  *)
(* access count, under 'ttl' none expires (created_at + ttl_seconds)       *)
(* sooner than an evicted one.                                             *)
(***************************************************************************)
\* this step is a call of set
SetStep == ops' = ops + 1 /\ lastOp'.op = "set"

\* the entries a set call evicted, and those it kept, the entry of its own key aside
EvictedEntries ==
    {memoryCache[i] : i \in {j \in 1..Len(memoryCache) :
                                 /\ memoryCache[j].key \notin MapKeys(memoryCache')
                                 /\ memoryCache[j].key # lastOp'.call.key}}

RetainedEntries ==
    {memoryCache[i] : i \in {j \in 1..Len(memoryCache) :
                                 /\ memoryCache[j].key \in MapKeys(memoryCache')
                                 /\ memoryCache[j].key # lastOp'.call.key}}

\* the time at which an entry expires, in milliseconds
ExpiresAt(entry) == entry.timestamp + entry.ttl * 1000

\* r is not ranked below v under the policy
NotRankedBelow(r, v) ==
    CASE config.strategy = "lru" -> r.lastAccessed >= v.lastAccessed
      [] config.strategy = "lfu" -> r.accessCount >= v.accessCount
      [] config.strategy = "ttl" -> ExpiresAt(r) >= ExpiresAt(v)

C16_VictimsAreLowestRanked ==
    [][SetStep => \A v \in EvictedEntries : \A r \in RetainedEntries : NotRankedBelow(r, v)]_vars

(***************************************************************************)
(* C17: calling set(k, v) twice in a row with the same value v increments  *)
(* the entry's access_count on the second call, leaves the entry's         *)
(* created_at unchanged, and evicts no entry.                              *)
(***************************************************************************)
\* this step is the second of two successful set calls in a row with the same key and
\* value, made without forceUpdate
RepeatedSetStep ==
    /\ SetStep
    /\ lastOp'.ret
    /\ ~lastOp'.call.forceUpdate
    /\ lastOp.op = "set"
    /\ lastOp.ret
    /\ lastOp.call.key = lastOp'.call.key
    /\ lastOp.call.value = lastOp'.call.value

\* the entry of the key of the call, before and after the step
EntryBefore == MapGet(memoryCache, lastOp'.call.key)

EntryAfter == MapGet(memoryCache', lastOp'.call.key)

C17_RepeatedSetCountsAccess ==
    [][RepeatedSetStep =>
          /\ EntryAfter.accessCount = EntryBefore.accessCount + 1
          /\ EntryAfter.timestamp = EntryBefore.timestamp
          /\ MapKeys(memoryCache') = MapKeys(memoryCache)]_vars

\* C17 as the code has it: the second call leaves access_count and created_at as they
\* were, moves last_accessed_at to the time of the call, and evicts no entry
C17_RepeatedSetKeepsCount ==
    [][RepeatedSetStep =>
          /\ EntryAfter.accessCount = EntryBefore.accessCount
          /\ EntryAfter.timestamp = EntryBefore.timestamp
          /\ EntryAfter.lastAccessed = now
          /\ MapKeys(memoryCache') = MapKeys(memoryCache)]_vars

\* two calls were made, both set(k1, 7), the second one 1001 ms after the first
C17_Witness ==
    /\ ops = 2
    /\ lastOp.op = "set"
    /\ lastOp.ret
    /\ lastOp.call.key = "k1"
    /\ lastOp.call.value = JsonValue("7", 1)
    /\ lastOp.call.ttl = 0
    /\ ~lastOp.call.forceUpdate
    /\ Len(memoryCache) = 1
    /\ memoryCache[1].value = JsonValue("7", 1)
    /\ memoryCache[1].timestamp = 0
    /\ memoryCache[1].lastAccessed = TickMs
    /\ memoryCache[1].accessCount = 1
    /\ now = TickMs

(***************************************************************************)
(* C18: for a non-new 300-line file whose diff has 120 changed lines       *)
(* (added + deleted) spread over 4 regions and whose content contains an   *)
(* exported declaration, analyze selects AffectedBlocks, for every split   *)
(* of the 120 changed lines into additions and deletions.                  *)
(***************************************************************************)
\* the analysis of such a file
LargeChangeWithExport ==
    /\ anOut # NoAnalysis
    /\ anOut.fileSize = 300
    /\ ~anOut.isNewFile
    /\ anOut.additions + anOut.deletions = 120
    /\ anOut.chunkCount = 4
    /\ anOut.hasApiChanges

C18_LargeChangeSelectsBlocks == LargeChangeWithExport => anOut.strategy = "affected_blocks"

\* C18 as the code has it: the split decides.  The ratio is 120 / (300 + max(0, deleted -
\* added)): above 0.3, and the summary is selected, unless the deletions exceed the
\* additions by 100 or more; 120 deletions alone make the analysis a deleted file.
C18_LargeChangeBySplit ==
    LargeChangeWithExport =>
        anOut.strategy = (IF anOut.additions = 0 THEN "diff_only"
                          ELSE IF anOut.deletions - anOut.additions >= 100 THEN "affected_blocks"
                          ELSE "smart_summary")

\* 10 added and 110 deleted lines: the ratio is 120 / 400, the blocks are selected
C18_Witness ==
    /\ LargeChangeWithExport
    /\ anOut.additions = 10
    /\ anOut.deletions = 110
    /\ anOut.changeRatio = Ratio(120, 400)
    /\ anOut.strategy = "affected_blocks"

(***************************************************************************)
(* C19: for any diff text that contains no well-formed hunk header         *)
(* (including empty text), the diff parser returns zero regions without    *)
(* throwing, and analyze still returns a ChangeAnalysis with               *)
(* region_count = 0 and max_region_size = 0.                               *)
(***************************************************************************)
\* no line of the diff text is a hunk header
NoHunkHeader == \A i \in 1..Len(exIn.answer.diff) : exIn.answer.diff[i].k # "hdr"

C19_NoHeaderNoRegions ==
    (exOut.called /\ NoHunkHeader) =>
        /\ exOut.chunks = <<>>
        /\ exOut.analysis.strategy \in ContextStrategy
        /\ exOut.analysis.chunkCount = 0
        /\ exOut.analysis.maxChunkSize = 0

\* a diff text with file lines, an added and a deleted line, and no hunk header
C19_Witness ==
    /\ exOut.called
    /\ ~exIn.answer.fails
    /\ exIn.answer.diff = dNoHeader
    /\ exIn.lines = cMid
    /\ exOut.chunks = <<>>
    /\ exOut.analysis.totalChangedLines = 2
    /\ exOut.analysis.chunkCount = 0

(***************************************************************************)
(* C20: loading the persisted snapshot never raises: if the snapshot file  *)
(* is missing, is not parsable, or contains a malformed entry list, the    *)
(* cache is left empty (no entry of the damaged snapshot is retrievable)   *)
(* and continues to operate in memory.                                     *)
(***************************************************************************)
\* the snapshot file is missing, is not JSON, or its entry list is not a list of pairs
DamagedSnapshot ==
    \/ disk.kind # "json"
    \/ \E i \in 1..Len(disk.entries) : ~disk.entries[i].pair

C20_DamagedSnapshotLeavesEmpty ==
    (lastOp.op = "load" /\ DamagedSnapshot) => memoryCache = <<>>

(***************************************************************************)
(* C21: for every hunk the diff parser assigns the region kind from the    *)
(* order of its + and - lines: a + line marks 'addition' unless a - line   *)
(* was already seen in the region, then 'modification'; a - line marks     *)
(* 'deletion', or 'modification' if a + line was already seen; context     *)
(* lines never change the kind.  A hunk with a - line followed by a + line *)
(* ends with kind 'modification'.                                          *)
(***************************************************************************)
\* the positions of the '+' and '-' lines of the hunk opened at h
HunkMarks(diff, h) == {j \in HunkLines(diff, h) : diff[j].k \in {"+", "-"}}

\* the kind the stated rule leaves after the last '+' or '-' line of the hunk
KindByOrder(diff, h) ==
    IF \A j \in HunkMarks(diff, h) : diff[j].k = "+" THEN "addition"
    ELSE IF \A j \in HunkMarks(diff, h) : diff[j].k = "-" THEN "deletion"
    ELSE "modification"

C21_KindFollowsOrder ==
    exOut.called =>
        \A k \in 1..Len(exOut.chunks) :
            HunkMarks(exIn.answer.diff, NthHeader(exIn.answer.diff, k)) # {} =>
                exOut.chunks[k].type = KindByOrder(exIn.answer.diff, NthHeader(exIn.answer.diff, k))

(***************************************************************************)
(* C22: the diff parser returns exactly one region per hunk header of the  *)
(* diff text, in the order the headers appear, each with start_line equal  *)
(* to the new-file start c of its header; lines before the first hunk      *)
(* header and file-header lines contribute nothing.                        *)
(***************************************************************************)
IsHeaderLine(line) == line.k = "hdr"

\* the header lines of the diff text, in their order
HeaderLines(diff) == SelectSeq(diff, IsHeaderLine)

\* the diff text without the lines before its first header and without file-header lines
FromFirstHeader(diff) ==
    [i \in 1..Cardinality({j \in 1..Len(diff) : \E h \in 1..j : diff[h].k = "hdr"}) |->
        diff[i + Len(diff) - Cardinality({j \in 1..Len(diff) : \E h \in 1..j : diff[h].k = "hdr"})]]

IsNoFileLine(line) == line.k # "file"

HunkLinesOnly(diff) == SelectSeq(FromFirstHeader(diff), IsNoFileLine)

C22_OneRegionPerHeader ==
    exOut.called =>
        /\ Len(exOut.chunks) = Len(HeaderLines(exIn.answer.diff))
        /\ \A k \in 1..Len(exOut.chunks) :
               exOut.chunks[k].startLine = HeaderLines(exIn.answer.diff)[k].c
        /\ exOut.chunks =
               parseDiffChunksByLine([fails |-> FALSE, diff |-> HunkLinesOnly(exIn.answer.diff)])

\* an added line and a file-header line, then two hunks, the later one first
C22_Witness ==
    /\ exOut.called
    /\ exIn.answer.diff = <<DiffLine("+", 0), DiffLine("file", 0), Hdr(3), Hdr(1), DiffLine("+", 0)>>
    /\ Len(exOut.chunks) = 2
    /\ exOut.chunks[1].startLine = 3
    /\ exOut.chunks[2].startLine = 1

(***************************************************************************)
(* C28: every region returned by the diff parser, whether it is flushed by *)
(* a following hunk header or is the last region of the diff, has          *)
(* end_line = start_line + (number of + lines and context lines of its     *)
(* hunk) - 1 and size = end_line - start_line + 1; the position of a hunk  *)
(* in the diff does not change how its end_line and size are computed.     *)
(***************************************************************************)
\* the number of '+' lines and context lines of the hunk opened at h
AdvancingLines(diff, h) ==
    Cardinality({j \in HunkLines(diff, h) : diff[j].k \in {"+", " ", ""}})

C28_RegionEndAndSize ==
    exOut.called =>
        \A k \in 1..Len(exOut.chunks) :
            /\ exOut.chunks[k].endLine =
                   exOut.chunks[k].startLine
                   + AdvancingLines(exIn.answer.diff, NthHeader(exIn.answer.diff, k)) - 1
            /\ exOut.chunks[k].size = exOut.chunks[k].endLine - exOut.chunks[k].startLine + 1

(***************************************************************************)
(* C23: for a non-empty region list and window W, the ContextWindow output *)
(* contains exactly the file lines whose 1-based number lies in            *)
(* [start_line - W, end_line + W] for at least one region (clamped to the  *)
(* file), each such line exactly once even when windows of different       *)
(* regions overlap, in ascending line order and labelled with its true     *)
(* line number.                                                            *)
(***************************************************************************)
IsNumberedLine(o) == o.t = "num"

\* the numbered lines of an output, in their order
NumberedSeq(out) == SelectSeq(out, IsNumberedLine)

\* the 1-based numbers of the file lines within W of a region
LinesNearRegions(lines, chunks, W) ==
    {n \in 1..Len(lines) :
        \E c \in 1..Len(chunks) : chunks[c].startLine - W <= n /\ n <= chunks[c].endLine + W}

ExactWindow(lines, chunks, nums) ==
    /\ \A i \in 1..Len(nums) : \A j \in 1..Len(nums) : i < j => nums[i].n < nums[j].n
    /\ {nums[i].n : i \in 1..Len(nums)} = LinesNearRegions(lines, chunks, contextWindowSize)
    /\ \A i \in 1..Len(nums) : nums[i].s = lines[nums[i].n]

C23_WindowIsExact ==
    (exOut.called /\ exOut.chunks # <<>>) =>
        ExactWindow(exIn.lines, exOut.chunks, NumberedSeq(exOut.window))

\* two regions whose windows are apart, the second cut at the end of the file
C23_Witness ==
    /\ exOut.called
    /\ exIn.lines = cBig
    /\ exIn.answer.diff = dApart
    /\ Len(exOut.chunks) = 2
    /\ Cardinality(NumberedLines(exOut.window)) = 22 + (Len(cBig) - 79)
    /\ Cardinality({i \in 1..Len(exOut.window) : exOut.window[i] = Text("...")}) = 2

(***************************************************************************)
(* C24: in SmartSummary output the detailed part covers at most 3 regions, *)
(* and when there are more than 3 regions they are the 3 with the largest  *)
(* size; for each such region the rendered window is exactly the file      *)
(* lines start_line - 5 through end_line + 5 (1-based, clamped to the      *)
(* file), and exactly the lines start_line..end_line carry the change      *)
(* marker.                                                                 *)
(***************************************************************************)
\* the positions of the headings of the detailed regions
DetailHeads(out) == {p \in 1..Len(out) : out[p].t = "chunkhead"}

\* the lines printed under the heading at p: their numbers and whether they are marked
DetailLines(out, p) ==
    {[n |-> out[i].n, marked |-> out[i].t = "marked"] :
        i \in {j \in (p + 1)..Len(out) :
                  /\ out[j].t \in {"marked", "plain"}
                  /\ \A q \in DetailHeads(out) : q <= p \/ q > j}}

\* the lines start - 5 .. end + 5 of the file, start .. end marked
WindowOfFive(lines, start, end) ==
    {[n |-> n, marked |-> start <= n /\ n <= end] :
        n \in {m \in 1..Len(lines) : start - 5 <= m /\ m <= end + 5}}

\* the regions without a heading are no larger than the region of the heading at p
LargestChosen(out, chunks, p) ==
    \A c \in 1..Len(chunks) :
        (\A q \in DetailHeads(out) : <<out[q].n, out[q].m>> # <<chunks[c].startLine, chunks[c].endLine>>)
            => chunks[c].size <= out[p].m - out[p].n + 1

C24_SummaryDetailsLargestThree ==
    (exOut.called /\ exOut.chunks # <<>>) =>
        /\ Cardinality(DetailHeads(exOut.summary)) <= 3
        /\ \A p \in DetailHeads(exOut.summary) :
               /\ LargestChosen(exOut.summary, exOut.chunks, p)
               /\ DetailLines(exOut.summary, p)
                      = WindowOfFive(exIn.lines, exOut.summary[p].n, exOut.summary[p].m)

(***************************************************************************)
(* C25: each run of the periodic sweep removes every entry whose TTL has   *)
(* elapsed and no other entry, leaves every retained entry's fields        *)
(* unchanged, and does so whether or not any byte or entry-count budget is *)
(* exceeded; while the cache is enabled and not destroyed the sweep keeps  *)
(* being scheduled, so an expired entry that is never read is eventually   *)
(* removed.                                                                *)
(***************************************************************************)
\* a run of the sweep
SweepStep == lastOp'.op = "sweep" /\ UNCHANGED <<ops, now>>

IsLive(entry) == ~TtlElapsed(entry, now)

\* the sweep leaves exactly the entries whose TTL has not elapsed, as they were
SweepIsExact == [][SweepStep => memoryCache' = SelectSeq(memoryCache, IsLive)]_vars

\* the cache holds an entry under key whose TTL has elapsed
HoldsExpired(key) == MapHas(memoryCache, key) /\ TtlElapsed(MapGet(memoryCache, key), now)

SetJustReturned(key) ==
    /\ config.enabled
    /\ lastOp.op = "set"
    /\ lastOp.ret
    /\ lastOp.call.key = key
    /\ MapHas(memoryCache, key) => MapGet(memoryCache, key).lastAccessed = now

C26_GetAfterSetReturnsValue ==
    [][(GetStep /\ SetJustReturned(lastOp'.call.key)) =>
          (lastOp'.ret /\ lastOp'.value = lastOp.call.value)]_vars

(***************************************************************************)
(* C27: after every public cache operation that adds or removes entries    *)
(* (set, delete, clear, cleanup, optimize, snapshot load), the accounting  *)
(* fields used by the space check are exact: stats.totalSize equals the    *)
(* sum of size over all cached entries and stats.entryCount equals the     *)
(* number of cached entries.                                               *)
(***************************************************************************)
C27_AccountingIsExact ==
    lastOp.op \in {"set", "delete", "clear", "cleanup", "optimize", "load"} =>
        /\ stats.totalSize = SumSizes(memoryCache)
        /\ stats.entryCount = Len(memoryCache)

(***************************************************************************)
(* C29: in the worker pool, every task accepted into the queue by          *)
(* submitTask is eventually dispatched to a worker and its promise is      *)
(* eventually resolved or rejected, provided the pool has at least one     *)
(* worker and every dispatched task either replies, errors or times out;   *)
(* in particular a queued task is still dispatched after an earlier task   *)
(* on the only worker has timed out, without a further submitTask call.    *)
(***************************************************************************)
\* the task was pushed on the queue and its promise is not settled
Accepted(t) == pool.tasks[t] \in {"queued", "running"}

Settled(t) == pool.tasks[t] \in {"resolved", "rejected"}

C29_AcceptedTaskIsSettled == \A t \in TaskIds : Accepted(t) ~> Settled(t)

(***************************************************************************)
(* C30: for every item list and every value of AI_CR_MAX_WORKERS, with or  *)
(* without AI_CR_ENABLE_PARALLEL, runQueue terminates after invoking the   *)
(* worker exactly once on each item of the list (a worker that throws does *)
(* not stop the remaining items), and never more workers than the          *)
(* configured maximum are in flight at once.                               *)
(***************************************************************************)
\* the configured maximum of workers in flight (one when the value is no count)
InFlightLimit ==
    IF NumLess(Num(0), maxConcurrencyOf(rq.env)) THEN maxConcurrencyOf(rq.env).n ELSE 1

\* runQueue has returned with one call of the worker on each item
EachItemOnce == rq.pc = "done" /\ \A k \in 1..Len(rq.items) : rq.invoked[k] = 1

C30_RunQueueInvokesEachOnce ==
    /\ [](Cardinality(rq.inFlight) <= InFlightLimit)
    /\ [](rq.pc = "done" => EachItemOnce)
    /\ <>(rq.pc = "done")

====
